---- MODULE Spec2Model ----
(***************************************************************************)
(* TrendPulse: alert decision (api/alert.py) and the trends pipeline      *)
(* (api/trends.py).  Sentiments are integers in hundredths (0.2 == 20).   *)
(***************************************************************************)
EXTENDS Integers, Sequences, FiniteSets, TLC

VARIABLES
    fin, fout, fdone,           \* pure-function harness: input, result, applied
    req, pc, signal, classified, checked, results, resp,
                                \* alert POST handler
    ppc, rpage, ri, rerr, rdata, tpage, ti, tdata, recs, out,
    terr, run, out1, err1
                                \* build_response: position, forum page and
                                \* its cursor, error flag, reddit ticker_data,
                                \* trends page, cursor, twitter trends, the
                                \* unsorted records, result; trends error
                                \* flag; a second build_response call: run
                                \* number, first result, first run's errors

fnVars == <<fin, fout, fdone>>
postVars == <<req, pc, signal, classified, checked, results, resp>>
pipeVars == <<ppc, rpage, ri, rerr, rdata, tpage, ti, tdata, recs, out, terr, run, out1, err1>>
vars == <<fnVars, postVars, pipeVars>>

-----------------------------------------------------------------------------
(* api/alert.py                                                            *)

Signals == {"BUY", "SELL", "WATCH", "HOLD"}

should_alert_watch_exclusive(sig, m) ==
    \/ sig = "BUY" /\ m >= 70
    \/ sig = "SELL" /\ m <= 30
    \/ sig = "WATCH" /\ m > 80

\* should_alert(signal, momentum)
should_alert(sig, m) ==
    \/ sig = "BUY" /\ m >= 70
    \/ sig = "SELL" /\ m <= 30
    \/ sig = "WATCH" /\ m >= 80

determine_signal_buy_inclusive(m, s) ==
    IF m >= 70 /\ s >= 20 THEN "BUY"
    ELSE IF m <= 30 \/ s < -30 THEN "SELL"
    ELSE IF m >= 50 /\ s > 0 THEN "WATCH"
    ELSE "HOLD"

\* determine_signal(momentum, sentiment); s in hundredths
determine_signal(m, s) ==
    IF m >= 70 /\ s > 20 THEN "BUY"
    ELSE IF m <= 30 \/ s < -30 THEN "SELL"
    ELSE IF m >= 50 /\ s > 0 THEN "WATCH"
    ELSE "HOLD"

MaxMomentum == 100
SentGrid == -100..100

\* Initial values of the groups a specification does not use
PostIdle == /\ req = [momentum |-> 50, sentiment |-> 0, sig |-> "ABSENT",
                      channels |-> {"discord", "email"}]
            /\ pc = "start" /\ signal = "NONE" /\ classified = FALSE
            /\ checked = FALSE /\ results = [c \in {} |-> FALSE] /\ resp = "none"
PipeIdle == /\ ppc = "idle" /\ rpage = <<>> /\ ri = 1 /\ rerr = FALSE /\ rdata = <<>>
            /\ tpage = <<>> /\ ti = 1 /\ tdata = <<>> /\ recs = <<>> /\ out = <<>>
            /\ terr = FALSE /\ run = 1 /\ out1 = <<>> /\ err1 = FALSE
FnIdle == fin = [m |-> 0] /\ fout = "none" /\ fdone = FALSE

(* Harness for determine_signal *)
InitSignal == /\ fin \in [m : 0..MaxMomentum, s : SentGrid] /\ fout = "none" /\ fdone = FALSE
              /\ PostIdle /\ PipeIdle
ApplySignal == /\ ~fdone
               /\ fout' = determine_signal(fin.m, fin.s) /\ fdone' = TRUE
               /\ UNCHANGED <<fin, postVars, pipeVars>>
SpecSignal == InitSignal /\ [][ApplySignal]_vars

(* Harness for should_alert: any signal string, incl. ones outside Signals *)
SignalInputs == Signals \cup {"OTHER"}
InitAlert == /\ fin \in [sig : SignalInputs, m : 0..MaxMomentum] /\ fout = "none" /\ fdone = FALSE
             /\ PostIdle /\ PipeIdle
ApplyAlert == /\ ~fdone
              /\ fout' = should_alert(fin.sig, fin.m) /\ fdone' = TRUE
              /\ UNCHANGED <<fin, postVars, pipeVars>>
SpecAlert == InitAlert /\ [][ApplyAlert]_vars

\* C1: classify returns the first matching rule of BUY, SELL, WATCH, HOLD
\* in that order; e.g. classify(75,0.3)=BUY, classify(20,0)=SELL,
\* classify(55,0.1)=WATCH, classify(50,-0.5)=SELL.
C1_ClassifyOrder ==
    fdone =>
        LET m == fin.m  s == fin.s IN
        /\ (m >= 70 /\ s > 20) => fout = "BUY"
        /\ (~(m >= 70 /\ s > 20) /\ (m <= 30 \/ s < -30)) => fout = "SELL"
        /\ (~(m >= 70 /\ s > 20) /\ ~(m <= 30 \/ s < -30) /\ m >= 50 /\ s > 0)
               => fout = "WATCH"
        /\ (~(m >= 70 /\ s > 20) /\ ~(m <= 30 \/ s < -30) /\ ~(m >= 50 /\ s > 0))
               => fout = "HOLD"
        /\ (m = 75 /\ s = 30) => fout = "BUY"
        /\ (m = 20 /\ s = 0) => fout = "SELL"
        /\ (m = 55 /\ s = 10) => fout = "WATCH"
        /\ (m = 50 /\ s = -50) => fout = "SELL"
C1_Witness == fdone /\ fout = "WATCH" /\ fin.m = 55 /\ fin.s = 10

\* C2: should_alert is true exactly for BUY with m >= 70, SELL with m <= 30,
\* WATCH with m >= 80, and false otherwise (always for HOLD); the WATCH
\* boundary is inclusive.
C2_ShouldAlertExact ==
    fdone =>
        /\ fout = ((fin.sig = "BUY" /\ fin.m >= 70) \/ (fin.sig = "SELL" /\ fin.m <= 30)
                   \/ (fin.sig = "WATCH" /\ fin.m >= 80))
        /\ fin.sig = "HOLD" => fout = FALSE
        /\ (fin.sig = "WATCH" /\ fin.m = 79) => fout = FALSE
        /\ (fin.sig = "WATCH" /\ fin.m = 80) => fout = TRUE
C2_Witness == fdone /\ fout = TRUE /\ fin.sig = "WATCH" /\ fin.m = 80

-----------------------------------------------------------------------------
(* api/trends.py: text.  A text is a sequence of characters, each a one-  *)
(* character string; the emoji keywords are the single characters named  *)
(* "U+1F680" etc.                                                         *)

UC == <<"A","B","C","D","E","F","G","H","I","J","K","L","M","N","O","P","Q","R","S","T","U","V","W","X","Y","Z">>
LC == <<"a","b","c","d","e","f","g","h","i","j","k","l","m","n","o","p","q","r","s","t","u","v","w","x","y","z">>
Digits == {"0","1","2","3","4","5","6","7","8","9"}
UpperLetters == {UC[i] : i \in 1..26}
LowerLetters == {LC[i] : i \in 1..26}
\* Non-ASCII characters are named "U+XXXX" (hex code point).  The tables
\* below are Python's Unicode database: full case mappings of str.lower()
\* and str.upper() for the characters they change, code point ranges of the
\* characters the str pattern \w matches, and the Cased / Case_Ignorable
\* properties str.lower() reads for the final-sigma rule.
LowerTable ==
    << [ch |-> "U+00C0", to |-> <<"U+00E0">>], [ch |-> "U+00C1", to |-> <<"U+00E1">>], [ch |-> "U+00C2", to |-> <<"U+00E2">>],
     [ch |-> "U+00C3", to |-> <<"U+00E3">>], [ch |-> "U+00C4", to |-> <<"U+00E4">>], [ch |-> "U+00C5", to |-> <<"U+00E5">>],
     [ch |-> "U+00C6", to |-> <<"U+00E6">>], [ch |-> "U+00C7", to |-> <<"U+00E7">>], [ch |-> "U+00C8", to |-> <<"U+00E8">>],
     [ch |-> "U+00C9", to |-> <<"U+00E9">>], [ch |-> "U+00CA", to |-> <<"U+00EA">>], [ch |-> "U+00CB", to |-> <<"U+00EB">>],
     [ch |-> "U+00CC", to |-> <<"U+00EC">>], [ch |-> "U+00CD", to |-> <<"U+00ED">>], [ch |-> "U+00CE", to |-> <<"U+00EE">>],
     [ch |-> "U+00CF", to |-> <<"U+00EF">>], [ch |-> "U+00D0", to |-> <<"U+00F0">>], [ch |-> "U+00D1", to |-> <<"U+00F1">>],
     [ch |-> "U+00D2", to |-> <<"U+00F2">>], [ch |-> "U+00D3", to |-> <<"U+00F3">>], [ch |-> "U+00D4", to |-> <<"U+00F4">>],
     [ch |-> "U+00D5", to |-> <<"U+00F5">>], [ch |-> "U+00D6", to |-> <<"U+00F6">>], [ch |-> "U+00D8", to |-> <<"U+00F8">>],
     [ch |-> "U+00D9", to |-> <<"U+00F9">>], [ch |-> "U+00DA", to |-> <<"U+00FA">>], [ch |-> "U+00DB", to |-> <<"U+00FB">>],
     [ch |-> "U+00DC", to |-> <<"U+00FC">>], [ch |-> "U+00DD", to |-> <<"U+00FD">>], [ch |-> "U+00DE", to |-> <<"U+00FE">>],
     [ch |-> "U+0100", to |-> <<"U+0101">>], [ch |-> "U+0102", to |-> <<"U+0103">>], [ch |-> "U+0104", to |-> <<"U+0105">>],
     [ch |-> "U+0106", to |-> <<"U+0107">>], [ch |-> "U+0108", to |-> <<"U+0109">>], [ch |-> "U+010A", to |-> <<"U+010B">>],
     [ch |-> "U+010C", to |-> <<"U+010D">>], [ch |-> "U+010E", to |-> <<"U+010F">>], [ch |-> "U+0110", to |-> <<"U+0111">>],
     [ch |-> "U+0112", to |-> <<"U+0113">>], [ch |-> "U+0114", to |-> <<"U+0115">>], [ch |-> "U+0116", to |-> <<"U+0117">>],
     [ch |-> "U+0118", to |-> <<"U+0119">>], [ch |-> "U+011A", to |-> <<"U+011B">>], [ch |-> "U+011C", to |-> <<"U+011D">>],
     [ch |-> "U+011E", to |-> <<"U+011F">>], [ch |-> "U+0120", to |-> <<"U+0121">>], [ch |-> "U+0122", to |-> <<"U+0123">>],
     [ch |-> "U+0124", to |-> <<"U+0125">>], [ch |-> "U+0126", to |-> <<"U+0127">>], [ch |-> "U+0128", to |-> <<"U+0129">>],
     [ch |-> "U+012A", to |-> <<"U+012B">>], [ch |-> "U+012C", to |-> <<"U+012D">>], [ch |-> "U+012E", to |-> <<"U+012F">>],
     [ch |-> "U+0130", to |-> <<"i", "U+0307">>], [ch |-> "U+0132", to |-> <<"U+0133">>], [ch |-> "U+0134", to |-> <<"U+0135">>],
     [ch |-> "U+0136", to |-> <<"U+0137">>], [ch |-> "U+0139", to |-> <<"U+013A">>], [ch |-> "U+013B", to |-> <<"U+013C">>],
     [ch |-> "U+013D", to |-> <<"U+013E">>], [ch |-> "U+013F", to |-> <<"U+0140">>], [ch |-> "U+0141", to |-> <<"U+0142">>],
     [ch |-> "U+0143", to |-> <<"U+0144">>], [ch |-> "U+0145", to |-> <<"U+0146">>], [ch |-> "U+0147", to |-> <<"U+0148">>],
     [ch |-> "U+014A", to |-> <<"U+014B">>], [ch |-> "U+014C", to |-> <<"U+014D">>], [ch |-> "U+014E", to |-> <<"U+014F">>],
     [ch |-> "U+0150", to |-> <<"U+0151">>], [ch |-> "U+0152", to |-> <<"U+0153">>], [ch |-> "U+0154", to |-> <<"U+0155">>],
     [ch |-> "U+0156", to |-> <<"U+0157">>], [ch |-> "U+0158", to |-> <<"U+0159">>], [ch |-> "U+015A", to |-> <<"U+015B">>],
     [ch |-> "U+015C", to |-> <<"U+015D">>], [ch |-> "U+015E", to |-> <<"U+015F">>], [ch |-> "U+0160", to |-> <<"U+0161">>],
     [ch |-> "U+0162", to |-> <<"U+0163">>], [ch |-> "U+0164", to |-> <<"U+0165">>], [ch |-> "U+0166", to |-> <<"U+0167">>],
     [ch |-> "U+0168", to |-> <<"U+0169">>], [ch |-> "U+016A", to |-> <<"U+016B">>], [ch |-> "U+016C", to |-> <<"U+016D">>],
     [ch |-> "U+016E", to |-> <<"U+016F">>], [ch |-> "U+0170", to |-> <<"U+0171">>], [ch |-> "U+0172", to |-> <<"U+0173">>],
     [ch |-> "U+0174", to |-> <<"U+0175">>], [ch |-> "U+0176", to |-> <<"U+0177">>], [ch |-> "U+0178", to |-> <<"U+00FF">>],
     [ch |-> "U+0179", to |-> <<"U+017A">>], [ch |-> "U+017B", to |-> <<"U+017C">>], [ch |-> "U+017D", to |-> <<"U+017E">>],
     [ch |-> "U+0181", to |-> <<"U+0253">>], [ch |-> "U+0182", to |-> <<"U+0183">>], [ch |-> "U+0184", to |-> <<"U+0185">>],
     [ch |-> "U+0186", to |-> <<"U+0254">>], [ch |-> "U+0187", to |-> <<"U+0188">>], [ch |-> "U+0189", to |-> <<"U+0256">>],
     [ch |-> "U+018A", to |-> <<"U+0257">>], [ch |-> "U+018B", to |-> <<"U+018C">>], [ch |-> "U+018E", to |-> <<"U+01DD">>],
     [ch |-> "U+018F", to |-> <<"U+0259">>], [ch |-> "U+0190", to |-> <<"U+025B">>], [ch |-> "U+0191", to |-> <<"U+0192">>],
     [ch |-> "U+0193", to |-> <<"U+0260">>], [ch |-> "U+0194", to |-> <<"U+0263">>], [ch |-> "U+0196", to |-> <<"U+0269">>],
     [ch |-> "U+0197", to |-> <<"U+0268">>], [ch |-> "U+0198", to |-> <<"U+0199">>], [ch |-> "U+019C", to |-> <<"U+026F">>],
     [ch |-> "U+019D", to |-> <<"U+0272">>], [ch |-> "U+019F", to |-> <<"U+0275">>], [ch |-> "U+01A0", to |-> <<"U+01A1">>],
     [ch |-> "U+01A2", to |-> <<"U+01A3">>], [ch |-> "U+01A4", to |-> <<"U+01A5">>], [ch |-> "U+01A6", to |-> <<"U+0280">>],
     [ch |-> "U+01A7", to |-> <<"U+01A8">>], [ch |-> "U+01A9", to |-> <<"U+0283">>], [ch |-> "U+01AC", to |-> <<"U+01AD">>],
     [ch |-> "U+01AE", to |-> <<"U+0288">>], [ch |-> "U+01AF", to |-> <<"U+01B0">>], [ch |-> "U+01B1", to |-> <<"U+028A">>],
     [ch |-> "U+01B2", to |-> <<"U+028B">>], [ch |-> "U+01B3", to |-> <<"U+01B4">>], [ch |-> "U+01B5", to |-> <<"U+01B6">>],
     [ch |-> "U+01B7", to |-> <<"U+0292">>], [ch |-> "U+01B8", to |-> <<"U+01B9">>], [ch |-> "U+01BC", to |-> <<"U+01BD">>],
     [ch |-> "U+01C4", to |-> <<"U+01C6">>], [ch |-> "U+01C5", to |-> <<"U+01C6">>], [ch |-> "U+01C7", to |-> <<"U+01C9">>],
     [ch |-> "U+01C8", to |-> <<"U+01C9">>], [ch |-> "U+01CA", to |-> <<"U+01CC">>], [ch |-> "U+01CB", to |-> <<"U+01CC">>],
     [ch |-> "U+01CD", to |-> <<"U+01CE">>], [ch |-> "U+01CF", to |-> <<"U+01D0">>], [ch |-> "U+01D1", to |-> <<"U+01D2">>],
     [ch |-> "U+01D3", to |-> <<"U+01D4">>], [ch |-> "U+01D5", to |-> <<"U+01D6">>], [ch |-> "U+01D7", to |-> <<"U+01D8">>],
     [ch |-> "U+01D9", to |-> <<"U+01DA">>], [ch |-> "U+01DB", to |-> <<"U+01DC">>], [ch |-> "U+01DE", to |-> <<"U+01DF">>],
     [ch |-> "U+01E0", to |-> <<"U+01E1">>], [ch |-> "U+01E2", to |-> <<"U+01E3">>], [ch |-> "U+01E4", to |-> <<"U+01E5">>],
     [ch |-> "U+01E6", to |-> <<"U+01E7">>], [ch |-> "U+01E8", to |-> <<"U+01E9">>], [ch |-> "U+01EA", to |-> <<"U+01EB">>],
     [ch |-> "U+01EC", to |-> <<"U+01ED">>], [ch |-> "U+01EE", to |-> <<"U+01EF">>], [ch |-> "U+01F1", to |-> <<"U+01F3">>],
     [ch |-> "U+01F2", to |-> <<"U+01F3">>], [ch |-> "U+01F4", to |-> <<"U+01F5">>], [ch |-> "U+01F6", to |-> <<"U+0195">>],
     [ch |-> "U+01F7", to |-> <<"U+01BF">>], [ch |-> "U+01F8", to |-> <<"U+01F9">>], [ch |-> "U+01FA", to |-> <<"U+01FB">>],
     [ch |-> "U+01FC", to |-> <<"U+01FD">>], [ch |-> "U+01FE", to |-> <<"U+01FF">>], [ch |-> "U+0200", to |-> <<"U+0201">>],
     [ch |-> "U+0202", to |-> <<"U+0203">>], [ch |-> "U+0204", to |-> <<"U+0205">>], [ch |-> "U+0206", to |-> <<"U+0207">>],
     [ch |-> "U+0208", to |-> <<"U+0209">>], [ch |-> "U+020A", to |-> <<"U+020B">>], [ch |-> "U+020C", to |-> <<"U+020D">>],
     [ch |-> "U+020E", to |-> <<"U+020F">>], [ch |-> "U+0210", to |-> <<"U+0211">>], [ch |-> "U+0212", to |-> <<"U+0213">>],
     [ch |-> "U+0214", to |-> <<"U+0215">>], [ch |-> "U+0216", to |-> <<"U+0217">>], [ch |-> "U+0218", to |-> <<"U+0219">>],
     [ch |-> "U+021A", to |-> <<"U+021B">>], [ch |-> "U+021C", to |-> <<"U+021D">>], [ch |-> "U+021E", to |-> <<"U+021F">>],
     [ch |-> "U+0220", to |-> <<"U+019E">>], [ch |-> "U+0222", to |-> <<"U+0223">>], [ch |-> "U+0224", to |-> <<"U+0225">>],
     [ch |-> "U+0226", to |-> <<"U+0227">>], [ch |-> "U+0228", to |-> <<"U+0229">>], [ch |-> "U+022A", to |-> <<"U+022B">>],
     [ch |-> "U+022C", to |-> <<"U+022D">>], [ch |-> "U+022E", to |-> <<"U+022F">>], [ch |-> "U+0230", to |-> <<"U+0231">>],
     [ch |-> "U+0232", to |-> <<"U+0233">>], [ch |-> "U+023A", to |-> <<"U+2C65">>], [ch |-> "U+023B", to |-> <<"U+023C">>],
     [ch |-> "U+023D", to |-> <<"U+019A">>], [ch |-> "U+023E", to |-> <<"U+2C66">>], [ch |-> "U+0241", to |-> <<"U+0242">>],
     [ch |-> "U+0243", to |-> <<"U+0180">>], [ch |-> "U+0244", to |-> <<"U+0289">>], [ch |-> "U+0245", to |-> <<"U+028C">>],
     [ch |-> "U+0246", to |-> <<"U+0247">>], [ch |-> "U+0248", to |-> <<"U+0249">>], [ch |-> "U+024A", to |-> <<"U+024B">>],
     [ch |-> "U+024C", to |-> <<"U+024D">>], [ch |-> "U+024E", to |-> <<"U+024F">>], [ch |-> "U+0370", to |-> <<"U+0371">>],
     [ch |-> "U+0372", to |-> <<"U+0373">>], [ch |-> "U+0376", to |-> <<"U+0377">>], [ch |-> "U+037F", to |-> <<"U+03F3">>],
     [ch |-> "U+0386", to |-> <<"U+03AC">>], [ch |-> "U+0388", to |-> <<"U+03AD">>], [ch |-> "U+0389", to |-> <<"U+03AE">>],
     [ch |-> "U+038A", to |-> <<"U+03AF">>], [ch |-> "U+038C", to |-> <<"U+03CC">>], [ch |-> "U+038E", to |-> <<"U+03CD">>],
     [ch |-> "U+038F", to |-> <<"U+03CE">>], [ch |-> "U+0391", to |-> <<"U+03B1">>], [ch |-> "U+0392", to |-> <<"U+03B2">>],
     [ch |-> "U+0393", to |-> <<"U+03B3">>], [ch |-> "U+0394", to |-> <<"U+03B4">>], [ch |-> "U+0395", to |-> <<"U+03B5">>],
     [ch |-> "U+0396", to |-> <<"U+03B6">>], [ch |-> "U+0397", to |-> <<"U+03B7">>], [ch |-> "U+0398", to |-> <<"U+03B8">>],
     [ch |-> "U+0399", to |-> <<"U+03B9">>], [ch |-> "U+039A", to |-> <<"U+03BA">>], [ch |-> "U+039B", to |-> <<"U+03BB">>],
     [ch |-> "U+039C", to |-> <<"U+03BC">>], [ch |-> "U+039D", to |-> <<"U+03BD">>], [ch |-> "U+039E", to |-> <<"U+03BE">>],
     [ch |-> "U+039F", to |-> <<"U+03BF">>], [ch |-> "U+03A0", to |-> <<"U+03C0">>], [ch |-> "U+03A1", to |-> <<"U+03C1">>],
     [ch |-> "U+03A3", to |-> <<"U+03C3">>], [ch |-> "U+03A4", to |-> <<"U+03C4">>], [ch |-> "U+03A5", to |-> <<"U+03C5">>],
     [ch |-> "U+03A6", to |-> <<"U+03C6">>], [ch |-> "U+03A7", to |-> <<"U+03C7">>], [ch |-> "U+03A8", to |-> <<"U+03C8">>],
     [ch |-> "U+03A9", to |-> <<"U+03C9">>], [ch |-> "U+03AA", to |-> <<"U+03CA">>], [ch |-> "U+03AB", to |-> <<"U+03CB">>],
     [ch |-> "U+03CF", to |-> <<"U+03D7">>], [ch |-> "U+03D8", to |-> <<"U+03D9">>], [ch |-> "U+03DA", to |-> <<"U+03DB">>],
     [ch |-> "U+03DC", to |-> <<"U+03DD">>], [ch |-> "U+03DE", to |-> <<"U+03DF">>], [ch |-> "U+03E0", to |-> <<"U+03E1">>],
     [ch |-> "U+03E2", to |-> <<"U+03E3">>], [ch |-> "U+03E4", to |-> <<"U+03E5">>], [ch |-> "U+03E6", to |-> <<"U+03E7">>],
     [ch |-> "U+03E8", to |-> <<"U+03E9">>], [ch |-> "U+03EA", to |-> <<"U+03EB">>], [ch |-> "U+03EC", to |-> <<"U+03ED">>],
     [ch |-> "U+03EE", to |-> <<"U+03EF">>], [ch |-> "U+03F4", to |-> <<"U+03B8">>], [ch |-> "U+03F7", to |-> <<"U+03F8">>],
     [ch |-> "U+03F9", to |-> <<"U+03F2">>], [ch |-> "U+03FA", to |-> <<"U+03FB">>], [ch |-> "U+03FD", to |-> <<"U+037B">>],
     [ch |-> "U+03FE", to |-> <<"U+037C">>], [ch |-> "U+03FF", to |-> <<"U+037D">>], [ch |-> "U+0400", to |-> <<"U+0450">>],
     [ch |-> "U+0401", to |-> <<"U+0451">>], [ch |-> "U+0402", to |-> <<"U+0452">>], [ch |-> "U+0403", to |-> <<"U+0453">>],
     [ch |-> "U+0404", to |-> <<"U+0454">>], [ch |-> "U+0405", to |-> <<"U+0455">>], [ch |-> "U+0406", to |-> <<"U+0456">>],
     [ch |-> "U+0407", to |-> <<"U+0457">>], [ch |-> "U+0408", to |-> <<"U+0458">>], [ch |-> "U+0409", to |-> <<"U+0459">>],
     [ch |-> "U+040A", to |-> <<"U+045A">>], [ch |-> "U+040B", to |-> <<"U+045B">>], [ch |-> "U+040C", to |-> <<"U+045C">>],
     [ch |-> "U+040D", to |-> <<"U+045D">>], [ch |-> "U+040E", to |-> <<"U+045E">>], [ch |-> "U+040F", to |-> <<"U+045F">>],
     [ch |-> "U+0410", to |-> <<"U+0430">>], [ch |-> "U+0411", to |-> <<"U+0431">>], [ch |-> "U+0412", to |-> <<"U+0432">>],
     [ch |-> "U+0413", to |-> <<"U+0433">>], [ch |-> "U+0414", to |-> <<"U+0434">>], [ch |-> "U+0415", to |-> <<"U+0435">>],
     [ch |-> "U+0416", to |-> <<"U+0436">>], [ch |-> "U+0417", to |-> <<"U+0437">>], [ch |-> "U+0418", to |-> <<"U+0438">>],
     [ch |-> "U+0419", to |-> <<"U+0439">>], [ch |-> "U+041A", to |-> <<"U+043A">>], [ch |-> "U+041B", to |-> <<"U+043B">>],
     [ch |-> "U+041C", to |-> <<"U+043C">>], [ch |-> "U+041D", to |-> <<"U+043D">>], [ch |-> "U+041E", to |-> <<"U+043E">>],
     [ch |-> "U+041F", to |-> <<"U+043F">>], [ch |-> "U+0420", to |-> <<"U+0440">>], [ch |-> "U+0421", to |-> <<"U+0441">>],
     [ch |-> "U+0422", to |-> <<"U+0442">>], [ch |-> "U+0423", to |-> <<"U+0443">>], [ch |-> "U+0424", to |-> <<"U+0444">>],
     [ch |-> "U+0425", to |-> <<"U+0445">>], [ch |-> "U+0426", to |-> <<"U+0446">>], [ch |-> "U+0427", to |-> <<"U+0447">>],
     [ch |-> "U+0428", to |-> <<"U+0448">>], [ch |-> "U+0429", to |-> <<"U+0449">>], [ch |-> "U+042A", to |-> <<"U+044A">>],
     [ch |-> "U+042B", to |-> <<"U+044B">>], [ch |-> "U+042C", to |-> <<"U+044C">>], [ch |-> "U+042D", to |-> <<"U+044D">>],
     [ch |-> "U+042E", to |-> <<"U+044E">>], [ch |-> "U+042F", to |-> <<"U+044F">>], [ch |-> "U+0460", to |-> <<"U+0461">>],
     [ch |-> "U+0462", to |-> <<"U+0463">>], [ch |-> "U+0464", to |-> <<"U+0465">>], [ch |-> "U+0466", to |-> <<"U+0467">>],
     [ch |-> "U+0468", to |-> <<"U+0469">>], [ch |-> "U+046A", to |-> <<"U+046B">>], [ch |-> "U+046C", to |-> <<"U+046D">>],
     [ch |-> "U+046E", to |-> <<"U+046F">>], [ch |-> "U+0470", to |-> <<"U+0471">>], [ch |-> "U+0472", to |-> <<"U+0473">>],
     [ch |-> "U+0474", to |-> <<"U+0475">>], [ch |-> "U+0476", to |-> <<"U+0477">>], [ch |-> "U+0478", to |-> <<"U+0479">>],
     [ch |-> "U+047A", to |-> <<"U+047B">>], [ch |-> "U+047C", to |-> <<"U+047D">>], [ch |-> "U+047E", to |-> <<"U+047F">>],
     [ch |-> "U+0480", to |-> <<"U+0481">>], [ch |-> "U+048A", to |-> <<"U+048B">>], [ch |-> "U+048C", to |-> <<"U+048D">>],
     [ch |-> "U+048E", to |-> <<"U+048F">>], [ch |-> "U+0490", to |-> <<"U+0491">>], [ch |-> "U+0492", to |-> <<"U+0493">>],
     [ch |-> "U+0494", to |-> <<"U+0495">>], [ch |-> "U+0496", to |-> <<"U+0497">>], [ch |-> "U+0498", to |-> <<"U+0499">>],
     [ch |-> "U+049A", to |-> <<"U+049B">>], [ch |-> "U+049C", to |-> <<"U+049D">>], [ch |-> "U+049E", to |-> <<"U+049F">>],
     [ch |-> "U+04A0", to |-> <<"U+04A1">>], [ch |-> "U+04A2", to |-> <<"U+04A3">>], [ch |-> "U+04A4", to |-> <<"U+04A5">>],
     [ch |-> "U+04A6", to |-> <<"U+04A7">>], [ch |-> "U+04A8", to |-> <<"U+04A9">>], [ch |-> "U+04AA", to |-> <<"U+04AB">>],
     [ch |-> "U+04AC", to |-> <<"U+04AD">>], [ch |-> "U+04AE", to |-> <<"U+04AF">>], [ch |-> "U+04B0", to |-> <<"U+04B1">>],
     [ch |-> "U+04B2", to |-> <<"U+04B3">>], [ch |-> "U+04B4", to |-> <<"U+04B5">>], [ch |-> "U+04B6", to |-> <<"U+04B7">>],
     [ch |-> "U+04B8", to |-> <<"U+04B9">>], [ch |-> "U+04BA", to |-> <<"U+04BB">>], [ch |-> "U+04BC", to |-> <<"U+04BD">>],
     [ch |-> "U+04BE", to |-> <<"U+04BF">>], [ch |-> "U+04C0", to |-> <<"U+04CF">>], [ch |-> "U+04C1", to |-> <<"U+04C2">>],
     [ch |-> "U+04C3", to |-> <<"U+04C4">>], [ch |-> "U+04C5", to |-> <<"U+04C6">>], [ch |-> "U+04C7", to |-> <<"U+04C8">>],
     [ch |-> "U+04C9", to |-> <<"U+04CA">>], [ch |-> "U+04CB", to |-> <<"U+04CC">>], [ch |-> "U+04CD", to |-> <<"U+04CE">>],
     [ch |-> "U+04D0", to |-> <<"U+04D1">>], [ch |-> "U+04D2", to |-> <<"U+04D3">>], [ch |-> "U+04D4", to |-> <<"U+04D5">>],
     [ch |-> "U+04D6", to |-> <<"U+04D7">>], [ch |-> "U+04D8", to |-> <<"U+04D9">>], [ch |-> "U+04DA", to |-> <<"U+04DB">>],
     [ch |-> "U+04DC", to |-> <<"U+04DD">>], [ch |-> "U+04DE", to |-> <<"U+04DF">>], [ch |-> "U+04E0", to |-> <<"U+04E1">>],
     [ch |-> "U+04E2", to |-> <<"U+04E3">>], [ch |-> "U+04E4", to |-> <<"U+04E5">>], [ch |-> "U+04E6", to |-> <<"U+04E7">>],
     [ch |-> "U+04E8", to |-> <<"U+04E9">>], [ch |-> "U+04EA", to |-> <<"U+04EB">>], [ch |-> "U+04EC", to |-> <<"U+04ED">>],
     [ch |-> "U+04EE", to |-> <<"U+04EF">>], [ch |-> "U+04F0", to |-> <<"U+04F1">>], [ch |-> "U+04F2", to |-> <<"U+04F3">>],
     [ch |-> "U+04F4", to |-> <<"U+04F5">>], [ch |-> "U+04F6", to |-> <<"U+04F7">>], [ch |-> "U+04F8", to |-> <<"U+04F9">>],
     [ch |-> "U+04FA", to |-> <<"U+04FB">>], [ch |-> "U+04FC", to |-> <<"U+04FD">>], [ch |-> "U+04FE", to |-> <<"U+04FF">>],
     [ch |-> "U+0500", to |-> <<"U+0501">>], [ch |-> "U+0502", to |-> <<"U+0503">>], [ch |-> "U+0504", to |-> <<"U+0505">>],
     [ch |-> "U+0506", to |-> <<"U+0507">>], [ch |-> "U+0508", to |-> <<"U+0509">>], [ch |-> "U+050A", to |-> <<"U+050B">>],
     [ch |-> "U+050C", to |-> <<"U+050D">>], [ch |-> "U+050E", to |-> <<"U+050F">>], [ch |-> "U+0510", to |-> <<"U+0511">>],
     [ch |-> "U+0512", to |-> <<"U+0513">>], [ch |-> "U+0514", to |-> <<"U+0515">>], [ch |-> "U+0516", to |-> <<"U+0517">>],
     [ch |-> "U+0518", to |-> <<"U+0519">>], [ch |-> "U+051A", to |-> <<"U+051B">>], [ch |-> "U+051C", to |-> <<"U+051D">>],
     [ch |-> "U+051E", to |-> <<"U+051F">>], [ch |-> "U+0520", to |-> <<"U+0521">>], [ch |-> "U+0522", to |-> <<"U+0523">>],
     [ch |-> "U+0524", to |-> <<"U+0525">>], [ch |-> "U+0526", to |-> <<"U+0527">>], [ch |-> "U+0528", to |-> <<"U+0529">>],
     [ch |-> "U+052A", to |-> <<"U+052B">>], [ch |-> "U+052C", to |-> <<"U+052D">>], [ch |-> "U+052E", to |-> <<"U+052F">>],
     [ch |-> "U+0531", to |-> <<"U+0561">>], [ch |-> "U+0532", to |-> <<"U+0562">>], [ch |-> "U+0533", to |-> <<"U+0563">>],
     [ch |-> "U+0534", to |-> <<"U+0564">>], [ch |-> "U+0535", to |-> <<"U+0565">>], [ch |-> "U+0536", to |-> <<"U+0566">>],
     [ch |-> "U+0537", to |-> <<"U+0567">>], [ch |-> "U+0538", to |-> <<"U+0568">>], [ch |-> "U+0539", to |-> <<"U+0569">>],
     [ch |-> "U+053A", to |-> <<"U+056A">>], [ch |-> "U+053B", to |-> <<"U+056B">>], [ch |-> "U+053C", to |-> <<"U+056C">>],
     [ch |-> "U+053D", to |-> <<"U+056D">>], [ch |-> "U+053E", to |-> <<"U+056E">>], [ch |-> "U+053F", to |-> <<"U+056F">>],
     [ch |-> "U+0540", to |-> <<"U+0570">>], [ch |-> "U+0541", to |-> <<"U+0571">>], [ch |-> "U+0542", to |-> <<"U+0572">>],
     [ch |-> "U+0543", to |-> <<"U+0573">>], [ch |-> "U+0544", to |-> <<"U+0574">>], [ch |-> "U+0545", to |-> <<"U+0575">>],
     [ch |-> "U+0546", to |-> <<"U+0576">>], [ch |-> "U+0547", to |-> <<"U+0577">>], [ch |-> "U+0548", to |-> <<"U+0578">>],
     [ch |-> "U+0549", to |-> <<"U+0579">>], [ch |-> "U+054A", to |-> <<"U+057A">>], [ch |-> "U+054B", to |-> <<"U+057B">>],
     [ch |-> "U+054C", to |-> <<"U+057C">>], [ch |-> "U+054D", to |-> <<"U+057D">>], [ch |-> "U+054E", to |-> <<"U+057E">>],
     [ch |-> "U+054F", to |-> <<"U+057F">>], [ch |-> "U+0550", to |-> <<"U+0580">>], [ch |-> "U+0551", to |-> <<"U+0581">>],
     [ch |-> "U+0552", to |-> <<"U+0582">>], [ch |-> "U+0553", to |-> <<"U+0583">>], [ch |-> "U+0554", to |-> <<"U+0584">>],
     [ch |-> "U+0555", to |-> <<"U+0585">>], [ch |-> "U+0556", to |-> <<"U+0586">>], [ch |-> "U+10A0", to |-> <<"U+2D00">>],
     [ch |-> "U+10A1", to |-> <<"U+2D01">>], [ch |-> "U+10A2", to |-> <<"U+2D02">>], [ch |-> "U+10A3", to |-> <<"U+2D03">>],
     [ch |-> "U+10A4", to |-> <<"U+2D04">>], [ch |-> "U+10A5", to |-> <<"U+2D05">>], [ch |-> "U+10A6", to |-> <<"U+2D06">>],
     [ch |-> "U+10A7", to |-> <<"U+2D07">>], [ch |-> "U+10A8", to |-> <<"U+2D08">>], [ch |-> "U+10A9", to |-> <<"U+2D09">>],
     [ch |-> "U+10AA", to |-> <<"U+2D0A">>], [ch |-> "U+10AB", to |-> <<"U+2D0B">>], [ch |-> "U+10AC", to |-> <<"U+2D0C">>],
     [ch |-> "U+10AD", to |-> <<"U+2D0D">>], [ch |-> "U+10AE", to |-> <<"U+2D0E">>], [ch |-> "U+10AF", to |-> <<"U+2D0F">>],
     [ch |-> "U+10B0", to |-> <<"U+2D10">>], [ch |-> "U+10B1", to |-> <<"U+2D11">>], [ch |-> "U+10B2", to |-> <<"U+2D12">>],
     [ch |-> "U+10B3", to |-> <<"U+2D13">>], [ch |-> "U+10B4", to |-> <<"U+2D14">>], [ch |-> "U+10B5", to |-> <<"U+2D15">>],
     [ch |-> "U+10B6", to |-> <<"U+2D16">>], [ch |-> "U+10B7", to |-> <<"U+2D17">>], [ch |-> "U+10B8", to |-> <<"U+2D18">>],
     [ch |-> "U+10B9", to |-> <<"U+2D19">>], [ch |-> "U+10BA", to |-> <<"U+2D1A">>], [ch |-> "U+10BB", to |-> <<"U+2D1B">>],
     [ch |-> "U+10BC", to |-> <<"U+2D1C">>], [ch |-> "U+10BD", to |-> <<"U+2D1D">>], [ch |-> "U+10BE", to |-> <<"U+2D1E">>],
     [ch |-> "U+10BF", to |-> <<"U+2D1F">>], [ch |-> "U+10C0", to |-> <<"U+2D20">>], [ch |-> "U+10C1", to |-> <<"U+2D21">>],
     [ch |-> "U+10C2", to |-> <<"U+2D22">>], [ch |-> "U+10C3", to |-> <<"U+2D23">>], [ch |-> "U+10C4", to |-> <<"U+2D24">>],
     [ch |-> "U+10C5", to |-> <<"U+2D25">>], [ch |-> "U+10C7", to |-> <<"U+2D27">>], [ch |-> "U+10CD", to |-> <<"U+2D2D">>],
     [ch |-> "U+13A0", to |-> <<"U+AB70">>], [ch |-> "U+13A1", to |-> <<"U+AB71">>], [ch |-> "U+13A2", to |-> <<"U+AB72">>],
     [ch |-> "U+13A3", to |-> <<"U+AB73">>], [ch |-> "U+13A4", to |-> <<"U+AB74">>], [ch |-> "U+13A5", to |-> <<"U+AB75">>],
     [ch |-> "U+13A6", to |-> <<"U+AB76">>], [ch |-> "U+13A7", to |-> <<"U+AB77">>], [ch |-> "U+13A8", to |-> <<"U+AB78">>],
     [ch |-> "U+13A9", to |-> <<"U+AB79">>], [ch |-> "U+13AA", to |-> <<"U+AB7A">>], [ch |-> "U+13AB", to |-> <<"U+AB7B">>],
     [ch |-> "U+13AC", to |-> <<"U+AB7C">>], [ch |-> "U+13AD", to |-> <<"U+AB7D">>], [ch |-> "U+13AE", to |-> <<"U+AB7E">>],
     [ch |-> "U+13AF", to |-> <<"U+AB7F">>], [ch |-> "U+13B0", to |-> <<"U+AB80">>], [ch |-> "U+13B1", to |-> <<"U+AB81">>],
     [ch |-> "U+13B2", to |-> <<"U+AB82">>], [ch |-> "U+13B3", to |-> <<"U+AB83">>], [ch |-> "U+13B4", to |-> <<"U+AB84">>],
     [ch |-> "U+13B5", to |-> <<"U+AB85">>], [ch |-> "U+13B6", to |-> <<"U+AB86">>], [ch |-> "U+13B7", to |-> <<"U+AB87">>],
     [ch |-> "U+13B8", to |-> <<"U+AB88">>], [ch |-> "U+13B9", to |-> <<"U+AB89">>], [ch |-> "U+13BA", to |-> <<"U+AB8A">>],
     [ch |-> "U+13BB", to |-> <<"U+AB8B">>], [ch |-> "U+13BC", to |-> <<"U+AB8C">>], [ch |-> "U+13BD", to |-> <<"U+AB8D">>],
     [ch |-> "U+13BE", to |-> <<"U+AB8E">>], [ch |-> "U+13BF", to |-> <<"U+AB8F">>], [ch |-> "U+13C0", to |-> <<"U+AB90">>],
     [ch |-> "U+13C1", to |-> <<"U+AB91">>], [ch |-> "U+13C2", to |-> <<"U+AB92">>], [ch |-> "U+13C3", to |-> <<"U+AB93">>],
     [ch |-> "U+13C4", to |-> <<"U+AB94">>], [ch |-> "U+13C5", to |-> <<"U+AB95">>], [ch |-> "U+13C6", to |-> <<"U+AB96">>],
     [ch |-> "U+13C7", to |-> <<"U+AB97">>], [ch |-> "U+13C8", to |-> <<"U+AB98">>], [ch |-> "U+13C9", to |-> <<"U+AB99">>],
     [ch |-> "U+13CA", to |-> <<"U+AB9A">>], [ch |-> "U+13CB", to |-> <<"U+AB9B">>], [ch |-> "U+13CC", to |-> <<"U+AB9C">>],
     [ch |-> "U+13CD", to |-> <<"U+AB9D">>], [ch |-> "U+13CE", to |-> <<"U+AB9E">>], [ch |-> "U+13CF", to |-> <<"U+AB9F">>],
     [ch |-> "U+13D0", to |-> <<"U+ABA0">>], [ch |-> "U+13D1", to |-> <<"U+ABA1">>], [ch |-> "U+13D2", to |-> <<"U+ABA2">>],
     [ch |-> "U+13D3", to |-> <<"U+ABA3">>], [ch |-> "U+13D4", to |-> <<"U+ABA4">>], [ch |-> "U+13D5", to |-> <<"U+ABA5">>],
     [ch |-> "U+13D6", to |-> <<"U+ABA6">>], [ch |-> "U+13D7", to |-> <<"U+ABA7">>], [ch |-> "U+13D8", to |-> <<"U+ABA8">>],
     [ch |-> "U+13D9", to |-> <<"U+ABA9">>], [ch |-> "U+13DA", to |-> <<"U+ABAA">>], [ch |-> "U+13DB", to |-> <<"U+ABAB">>],
     [ch |-> "U+13DC", to |-> <<"U+ABAC">>], [ch |-> "U+13DD", to |-> <<"U+ABAD">>], [ch |-> "U+13DE", to |-> <<"U+ABAE">>],
     [ch |-> "U+13DF", to |-> <<"U+ABAF">>], [ch |-> "U+13E0", to |-> <<"U+ABB0">>], [ch |-> "U+13E1", to |-> <<"U+ABB1">>],
     [ch |-> "U+13E2", to |-> <<"U+ABB2">>], [ch |-> "U+13E3", to |-> <<"U+ABB3">>], [ch |-> "U+13E4", to |-> <<"U+ABB4">>],
     [ch |-> "U+13E5", to |-> <<"U+ABB5">>], [ch |-> "U+13E6", to |-> <<"U+ABB6">>], [ch |-> "U+13E7", to |-> <<"U+ABB7">>],
     [ch |-> "U+13E8", to |-> <<"U+ABB8">>], [ch |-> "U+13E9", to |-> <<"U+ABB9">>], [ch |-> "U+13EA", to |-> <<"U+ABBA">>],
     [ch |-> "U+13EB", to |-> <<"U+ABBB">>], [ch |-> "U+13EC", to |-> <<"U+ABBC">>], [ch |-> "U+13ED", to |-> <<"U+ABBD">>],
     [ch |-> "U+13EE", to |-> <<"U+ABBE">>], [ch |-> "U+13EF", to |-> <<"U+ABBF">>], [ch |-> "U+13F0", to |-> <<"U+13F8">>],
     [ch |-> "U+13F1", to |-> <<"U+13F9">>], [ch |-> "U+13F2", to |-> <<"U+13FA">>], [ch |-> "U+13F3", to |-> <<"U+13FB">>],
     [ch |-> "U+13F4", to |-> <<"U+13FC">>], [ch |-> "U+13F5", to |-> <<"U+13FD">>], [ch |-> "U+1C90", to |-> <<"U+10D0">>],
     [ch |-> "U+1C91", to |-> <<"U+10D1">>], [ch |-> "U+1C92", to |-> <<"U+10D2">>], [ch |-> "U+1C93", to |-> <<"U+10D3">>],
     [ch |-> "U+1C94", to |-> <<"U+10D4">>], [ch |-> "U+1C95", to |-> <<"U+10D5">>], [ch |-> "U+1C96", to |-> <<"U+10D6">>],
     [ch |-> "U+1C97", to |-> <<"U+10D7">>], [ch |-> "U+1C98", to |-> <<"U+10D8">>], [ch |-> "U+1C99", to |-> <<"U+10D9">>],
     [ch |-> "U+1C9A", to |-> <<"U+10DA">>], [ch |-> "U+1C9B", to |-> <<"U+10DB">>], [ch |-> "U+1C9C", to |-> <<"U+10DC">>],
     [ch |-> "U+1C9D", to |-> <<"U+10DD">>], [ch |-> "U+1C9E", to |-> <<"U+10DE">>], [ch |-> "U+1C9F", to |-> <<"U+10DF">>],
     [ch |-> "U+1CA0", to |-> <<"U+10E0">>], [ch |-> "U+1CA1", to |-> <<"U+10E1">>], [ch |-> "U+1CA2", to |-> <<"U+10E2">>],
     [ch |-> "U+1CA3", to |-> <<"U+10E3">>], [ch |-> "U+1CA4", to |-> <<"U+10E4">>], [ch |-> "U+1CA5", to |-> <<"U+10E5">>],
     [ch |-> "U+1CA6", to |-> <<"U+10E6">>], [ch |-> "U+1CA7", to |-> <<"U+10E7">>], [ch |-> "U+1CA8", to |-> <<"U+10E8">>],
     [ch |-> "U+1CA9", to |-> <<"U+10E9">>], [ch |-> "U+1CAA", to |-> <<"U+10EA">>], [ch |-> "U+1CAB", to |-> <<"U+10EB">>],
     [ch |-> "U+1CAC", to |-> <<"U+10EC">>], [ch |-> "U+1CAD", to |-> <<"U+10ED">>], [ch |-> "U+1CAE", to |-> <<"U+10EE">>],
     [ch |-> "U+1CAF", to |-> <<"U+10EF">>], [ch |-> "U+1CB0", to |-> <<"U+10F0">>], [ch |-> "U+1CB1", to |-> <<"U+10F1">>],
     [ch |-> "U+1CB2", to |-> <<"U+10F2">>], [ch |-> "U+1CB3", to |-> <<"U+10F3">>], [ch |-> "U+1CB4", to |-> <<"U+10F4">>],
     [ch |-> "U+1CB5", to |-> <<"U+10F5">>], [ch |-> "U+1CB6", to |-> <<"U+10F6">>], [ch |-> "U+1CB7", to |-> <<"U+10F7">>],
     [ch |-> "U+1CB8", to |-> <<"U+10F8">>], [ch |-> "U+1CB9", to |-> <<"U+10F9">>], [ch |-> "U+1CBA", to |-> <<"U+10FA">>],
     [ch |-> "U+1CBD", to |-> <<"U+10FD">>], [ch |-> "U+1CBE", to |-> <<"U+10FE">>], [ch |-> "U+1CBF", to |-> <<"U+10FF">>],
     [ch |-> "U+1E00", to |-> <<"U+1E01">>], [ch |-> "U+1E02", to |-> <<"U+1E03">>], [ch |-> "U+1E04", to |-> <<"U+1E05">>],
     [ch |-> "U+1E06", to |-> <<"U+1E07">>], [ch |-> "U+1E08", to |-> <<"U+1E09">>], [ch |-> "U+1E0A", to |-> <<"U+1E0B">>],
     [ch |-> "U+1E0C", to |-> <<"U+1E0D">>], [ch |-> "U+1E0E", to |-> <<"U+1E0F">>], [ch |-> "U+1E10", to |-> <<"U+1E11">>],
     [ch |-> "U+1E12", to |-> <<"U+1E13">>], [ch |-> "U+1E14", to |-> <<"U+1E15">>], [ch |-> "U+1E16", to |-> <<"U+1E17">>],
     [ch |-> "U+1E18", to |-> <<"U+1E19">>], [ch |-> "U+1E1A", to |-> <<"U+1E1B">>], [ch |-> "U+1E1C", to |-> <<"U+1E1D">>],
     [ch |-> "U+1E1E", to |-> <<"U+1E1F">>], [ch |-> "U+1E20", to |-> <<"U+1E21">>], [ch |-> "U+1E22", to |-> <<"U+1E23">>],
     [ch |-> "U+1E24", to |-> <<"U+1E25">>], [ch |-> "U+1E26", to |-> <<"U+1E27">>], [ch |-> "U+1E28", to |-> <<"U+1E29">>],
     [ch |-> "U+1E2A", to |-> <<"U+1E2B">>], [ch |-> "U+1E2C", to |-> <<"U+1E2D">>], [ch |-> "U+1E2E", to |-> <<"U+1E2F">>],
     [ch |-> "U+1E30", to |-> <<"U+1E31">>], [ch |-> "U+1E32", to |-> <<"U+1E33">>], [ch |-> "U+1E34", to |-> <<"U+1E35">>],
     [ch |-> "U+1E36", to |-> <<"U+1E37">>], [ch |-> "U+1E38", to |-> <<"U+1E39">>], [ch |-> "U+1E3A", to |-> <<"U+1E3B">>],
     [ch |-> "U+1E3C", to |-> <<"U+1E3D">>], [ch |-> "U+1E3E", to |-> <<"U+1E3F">>], [ch |-> "U+1E40", to |-> <<"U+1E41">>],
     [ch |-> "U+1E42", to |-> <<"U+1E43">>], [ch |-> "U+1E44", to |-> <<"U+1E45">>], [ch |-> "U+1E46", to |-> <<"U+1E47">>],
     [ch |-> "U+1E48", to |-> <<"U+1E49">>], [ch |-> "U+1E4A", to |-> <<"U+1E4B">>], [ch |-> "U+1E4C", to |-> <<"U+1E4D">>],
     [ch |-> "U+1E4E", to |-> <<"U+1E4F">>], [ch |-> "U+1E50", to |-> <<"U+1E51">>], [ch |-> "U+1E52", to |-> <<"U+1E53">>],
     [ch |-> "U+1E54", to |-> <<"U+1E55">>], [ch |-> "U+1E56", to |-> <<"U+1E57">>], [ch |-> "U+1E58", to |-> <<"U+1E59">>],
     [ch |-> "U+1E5A", to |-> <<"U+1E5B">>], [ch |-> "U+1E5C", to |-> <<"U+1E5D">>], [ch |-> "U+1E5E", to |-> <<"U+1E5F">>],
     [ch |-> "U+1E60", to |-> <<"U+1E61">>], [ch |-> "U+1E62", to |-> <<"U+1E63">>], [ch |-> "U+1E64", to |-> <<"U+1E65">>],
     [ch |-> "U+1E66", to |-> <<"U+1E67">>], [ch |-> "U+1E68", to |-> <<"U+1E69">>], [ch |-> "U+1E6A", to |-> <<"U+1E6B">>],
     [ch |-> "U+1E6C", to |-> <<"U+1E6D">>], [ch |-> "U+1E6E", to |-> <<"U+1E6F">>], [ch |-> "U+1E70", to |-> <<"U+1E71">>],
     [ch |-> "U+1E72", to |-> <<"U+1E73">>], [ch |-> "U+1E74", to |-> <<"U+1E75">>], [ch |-> "U+1E76", to |-> <<"U+1E77">>],
     [ch |-> "U+1E78", to |-> <<"U+1E79">>], [ch |-> "U+1E7A", to |-> <<"U+1E7B">>], [ch |-> "U+1E7C", to |-> <<"U+1E7D">>],
     [ch |-> "U+1E7E", to |-> <<"U+1E7F">>], [ch |-> "U+1E80", to |-> <<"U+1E81">>], [ch |-> "U+1E82", to |-> <<"U+1E83">>],
     [ch |-> "U+1E84", to |-> <<"U+1E85">>], [ch |-> "U+1E86", to |-> <<"U+1E87">>], [ch |-> "U+1E88", to |-> <<"U+1E89">>],
     [ch |-> "U+1E8A", to |-> <<"U+1E8B">>], [ch |-> "U+1E8C", to |-> <<"U+1E8D">>], [ch |-> "U+1E8E", to |-> <<"U+1E8F">>],
     [ch |-> "U+1E90", to |-> <<"U+1E91">>], [ch |-> "U+1E92", to |-> <<"U+1E93">>], [ch |-> "U+1E94", to |-> <<"U+1E95">>],
     [ch |-> "U+1E9E", to |-> <<"U+00DF">>], [ch |-> "U+1EA0", to |-> <<"U+1EA1">>], [ch |-> "U+1EA2", to |-> <<"U+1EA3">>],
     [ch |-> "U+1EA4", to |-> <<"U+1EA5">>], [ch |-> "U+1EA6", to |-> <<"U+1EA7">>], [ch |-> "U+1EA8", to |-> <<"U+1EA9">>],
     [ch |-> "U+1EAA", to |-> <<"U+1EAB">>], [ch |-> "U+1EAC", to |-> <<"U+1EAD">>], [ch |-> "U+1EAE", to |-> <<"U+1EAF">>],
     [ch |-> "U+1EB0", to |-> <<"U+1EB1">>], [ch |-> "U+1EB2", to |-> <<"U+1EB3">>], [ch |-> "U+1EB4", to |-> <<"U+1EB5">>],
     [ch |-> "U+1EB6", to |-> <<"U+1EB7">>], [ch |-> "U+1EB8", to |-> <<"U+1EB9">>], [ch |-> "U+1EBA", to |-> <<"U+1EBB">>],
     [ch |-> "U+1EBC", to |-> <<"U+1EBD">>], [ch |-> "U+1EBE", to |-> <<"U+1EBF">>], [ch |-> "U+1EC0", to |-> <<"U+1EC1">>],
     [ch |-> "U+1EC2", to |-> <<"U+1EC3">>], [ch |-> "U+1EC4", to |-> <<"U+1EC5">>], [ch |-> "U+1EC6", to |-> <<"U+1EC7">>],
     [ch |-> "U+1EC8", to |-> <<"U+1EC9">>], [ch |-> "U+1ECA", to |-> <<"U+1ECB">>], [ch |-> "U+1ECC", to |-> <<"U+1ECD">>],
     [ch |-> "U+1ECE", to |-> <<"U+1ECF">>], [ch |-> "U+1ED0", to |-> <<"U+1ED1">>], [ch |-> "U+1ED2", to |-> <<"U+1ED3">>],
     [ch |-> "U+1ED4", to |-> <<"U+1ED5">>], [ch |-> "U+1ED6", to |-> <<"U+1ED7">>], [ch |-> "U+1ED8", to |-> <<"U+1ED9">>],
     [ch |-> "U+1EDA", to |-> <<"U+1EDB">>], [ch |-> "U+1EDC", to |-> <<"U+1EDD">>], [ch |-> "U+1EDE", to |-> <<"U+1EDF">>],
     [ch |-> "U+1EE0", to |-> <<"U+1EE1">>], [ch |-> "U+1EE2", to |-> <<"U+1EE3">>], [ch |-> "U+1EE4", to |-> <<"U+1EE5">>],
     [ch |-> "U+1EE6", to |-> <<"U+1EE7">>], [ch |-> "U+1EE8", to |-> <<"U+1EE9">>], [ch |-> "U+1EEA", to |-> <<"U+1EEB">>],
     [ch |-> "U+1EEC", to |-> <<"U+1EED">>], [ch |-> "U+1EEE", to |-> <<"U+1EEF">>], [ch |-> "U+1EF0", to |-> <<"U+1EF1">>],
     [ch |-> "U+1EF2", to |-> <<"U+1EF3">>], [ch |-> "U+1EF4", to |-> <<"U+1EF5">>], [ch |-> "U+1EF6", to |-> <<"U+1EF7">>],
     [ch |-> "U+1EF8", to |-> <<"U+1EF9">>], [ch |-> "U+1EFA", to |-> <<"U+1EFB">>], [ch |-> "U+1EFC", to |-> <<"U+1EFD">>],
     [ch |-> "U+1EFE", to |-> <<"U+1EFF">>], [ch |-> "U+1F08", to |-> <<"U+1F00">>], [ch |-> "U+1F09", to |-> <<"U+1F01">>],
     [ch |-> "U+1F0A", to |-> <<"U+1F02">>], [ch |-> "U+1F0B", to |-> <<"U+1F03">>], [ch |-> "U+1F0C", to |-> <<"U+1F04">>],
     [ch |-> "U+1F0D", to |-> <<"U+1F05">>], [ch |-> "U+1F0E", to |-> <<"U+1F06">>], [ch |-> "U+1F0F", to |-> <<"U+1F07">>],
     [ch |-> "U+1F18", to |-> <<"U+1F10">>], [ch |-> "U+1F19", to |-> <<"U+1F11">>], [ch |-> "U+1F1A", to |-> <<"U+1F12">>],
     [ch |-> "U+1F1B", to |-> <<"U+1F13">>], [ch |-> "U+1F1C", to |-> <<"U+1F14">>], [ch |-> "U+1F1D", to |-> <<"U+1F15">>],
     [ch |-> "U+1F28", to |-> <<"U+1F20">>], [ch |-> "U+1F29", to |-> <<"U+1F21">>], [ch |-> "U+1F2A", to |-> <<"U+1F22">>],
     [ch |-> "U+1F2B", to |-> <<"U+1F23">>], [ch |-> "U+1F2C", to |-> <<"U+1F24">>], [ch |-> "U+1F2D", to |-> <<"U+1F25">>],
     [ch |-> "U+1F2E", to |-> <<"U+1F26">>], [ch |-> "U+1F2F", to |-> <<"U+1F27">>], [ch |-> "U+1F38", to |-> <<"U+1F30">>],
     [ch |-> "U+1F39", to |-> <<"U+1F31">>], [ch |-> "U+1F3A", to |-> <<"U+1F32">>], [ch |-> "U+1F3B", to |-> <<"U+1F33">>],
     [ch |-> "U+1F3C", to |-> <<"U+1F34">>], [ch |-> "U+1F3D", to |-> <<"U+1F35">>], [ch |-> "U+1F3E", to |-> <<"U+1F36">>],
     [ch |-> "U+1F3F", to |-> <<"U+1F37">>], [ch |-> "U+1F48", to |-> <<"U+1F40">>], [ch |-> "U+1F49", to |-> <<"U+1F41">>],
     [ch |-> "U+1F4A", to |-> <<"U+1F42">>], [ch |-> "U+1F4B", to |-> <<"U+1F43">>], [ch |-> "U+1F4C", to |-> <<"U+1F44">>],
     [ch |-> "U+1F4D", to |-> <<"U+1F45">>], [ch |-> "U+1F59", to |-> <<"U+1F51">>], [ch |-> "U+1F5B", to |-> <<"U+1F53">>],
     [ch |-> "U+1F5D", to |-> <<"U+1F55">>], [ch |-> "U+1F5F", to |-> <<"U+1F57">>], [ch |-> "U+1F68", to |-> <<"U+1F60">>],
     [ch |-> "U+1F69", to |-> <<"U+1F61">>], [ch |-> "U+1F6A", to |-> <<"U+1F62">>], [ch |-> "U+1F6B", to |-> <<"U+1F63">>],
     [ch |-> "U+1F6C", to |-> <<"U+1F64">>], [ch |-> "U+1F6D", to |-> <<"U+1F65">>], [ch |-> "U+1F6E", to |-> <<"U+1F66">>],
     [ch |-> "U+1F6F", to |-> <<"U+1F67">>], [ch |-> "U+1F88", to |-> <<"U+1F80">>], [ch |-> "U+1F89", to |-> <<"U+1F81">>],
     [ch |-> "U+1F8A", to |-> <<"U+1F82">>], [ch |-> "U+1F8B", to |-> <<"U+1F83">>], [ch |-> "U+1F8C", to |-> <<"U+1F84">>],
     [ch |-> "U+1F8D", to |-> <<"U+1F85">>], [ch |-> "U+1F8E", to |-> <<"U+1F86">>], [ch |-> "U+1F8F", to |-> <<"U+1F87">>],
     [ch |-> "U+1F98", to |-> <<"U+1F90">>], [ch |-> "U+1F99", to |-> <<"U+1F91">>], [ch |-> "U+1F9A", to |-> <<"U+1F92">>],
     [ch |-> "U+1F9B", to |-> <<"U+1F93">>], [ch |-> "U+1F9C", to |-> <<"U+1F94">>], [ch |-> "U+1F9D", to |-> <<"U+1F95">>],
     [ch |-> "U+1F9E", to |-> <<"U+1F96">>], [ch |-> "U+1F9F", to |-> <<"U+1F97">>], [ch |-> "U+1FA8", to |-> <<"U+1FA0">>],
     [ch |-> "U+1FA9", to |-> <<"U+1FA1">>], [ch |-> "U+1FAA", to |-> <<"U+1FA2">>], [ch |-> "U+1FAB", to |-> <<"U+1FA3">>],
     [ch |-> "U+1FAC", to |-> <<"U+1FA4">>], [ch |-> "U+1FAD", to |-> <<"U+1FA5">>], [ch |-> "U+1FAE", to |-> <<"U+1FA6">>],
     [ch |-> "U+1FAF", to |-> <<"U+1FA7">>], [ch |-> "U+1FB8", to |-> <<"U+1FB0">>], [ch |-> "U+1FB9", to |-> <<"U+1FB1">>],
     [ch |-> "U+1FBA", to |-> <<"U+1F70">>], [ch |-> "U+1FBB", to |-> <<"U+1F71">>], [ch |-> "U+1FBC", to |-> <<"U+1FB3">>],
     [ch |-> "U+1FC8", to |-> <<"U+1F72">>], [ch |-> "U+1FC9", to |-> <<"U+1F73">>], [ch |-> "U+1FCA", to |-> <<"U+1F74">>],
     [ch |-> "U+1FCB", to |-> <<"U+1F75">>], [ch |-> "U+1FCC", to |-> <<"U+1FC3">>], [ch |-> "U+1FD8", to |-> <<"U+1FD0">>],
     [ch |-> "U+1FD9", to |-> <<"U+1FD1">>], [ch |-> "U+1FDA", to |-> <<"U+1F76">>], [ch |-> "U+1FDB", to |-> <<"U+1F77">>],
     [ch |-> "U+1FE8", to |-> <<"U+1FE0">>], [ch |-> "U+1FE9", to |-> <<"U+1FE1">>], [ch |-> "U+1FEA", to |-> <<"U+1F7A">>],
     [ch |-> "U+1FEB", to |-> <<"U+1F7B">>], [ch |-> "U+1FEC", to |-> <<"U+1FE5">>], [ch |-> "U+1FF8", to |-> <<"U+1F78">>],
     [ch |-> "U+1FF9", to |-> <<"U+1F79">>], [ch |-> "U+1FFA", to |-> <<"U+1F7C">>], [ch |-> "U+1FFB", to |-> <<"U+1F7D">>],
     [ch |-> "U+1FFC", to |-> <<"U+1FF3">>], [ch |-> "U+2126", to |-> <<"U+03C9">>], [ch |-> "U+212A", to |-> <<"k">>],
     [ch |-> "U+212B", to |-> <<"U+00E5">>], [ch |-> "U+2132", to |-> <<"U+214E">>], [ch |-> "U+2160", to |-> <<"U+2170">>],
     [ch |-> "U+2161", to |-> <<"U+2171">>], [ch |-> "U+2162", to |-> <<"U+2172">>], [ch |-> "U+2163", to |-> <<"U+2173">>],
     [ch |-> "U+2164", to |-> <<"U+2174">>], [ch |-> "U+2165", to |-> <<"U+2175">>], [ch |-> "U+2166", to |-> <<"U+2176">>],
     [ch |-> "U+2167", to |-> <<"U+2177">>], [ch |-> "U+2168", to |-> <<"U+2178">>], [ch |-> "U+2169", to |-> <<"U+2179">>],
     [ch |-> "U+216A", to |-> <<"U+217A">>], [ch |-> "U+216B", to |-> <<"U+217B">>], [ch |-> "U+216C", to |-> <<"U+217C">>],
     [ch |-> "U+216D", to |-> <<"U+217D">>], [ch |-> "U+216E", to |-> <<"U+217E">>], [ch |-> "U+216F", to |-> <<"U+217F">>],
     [ch |-> "U+2183", to |-> <<"U+2184">>], [ch |-> "U+24B6", to |-> <<"U+24D0">>], [ch |-> "U+24B7", to |-> <<"U+24D1">>],
     [ch |-> "U+24B8", to |-> <<"U+24D2">>], [ch |-> "U+24B9", to |-> <<"U+24D3">>], [ch |-> "U+24BA", to |-> <<"U+24D4">>],
     [ch |-> "U+24BB", to |-> <<"U+24D5">>], [ch |-> "U+24BC", to |-> <<"U+24D6">>], [ch |-> "U+24BD", to |-> <<"U+24D7">>],
     [ch |-> "U+24BE", to |-> <<"U+24D8">>], [ch |-> "U+24BF", to |-> <<"U+24D9">>], [ch |-> "U+24C0", to |-> <<"U+24DA">>],
     [ch |-> "U+24C1", to |-> <<"U+24DB">>], [ch |-> "U+24C2", to |-> <<"U+24DC">>], [ch |-> "U+24C3", to |-> <<"U+24DD">>],
     [ch |-> "U+24C4", to |-> <<"U+24DE">>], [ch |-> "U+24C5", to |-> <<"U+24DF">>], [ch |-> "U+24C6", to |-> <<"U+24E0">>],
     [ch |-> "U+24C7", to |-> <<"U+24E1">>], [ch |-> "U+24C8", to |-> <<"U+24E2">>], [ch |-> "U+24C9", to |-> <<"U+24E3">>],
     [ch |-> "U+24CA", to |-> <<"U+24E4">>], [ch |-> "U+24CB", to |-> <<"U+24E5">>], [ch |-> "U+24CC", to |-> <<"U+24E6">>],
     [ch |-> "U+24CD", to |-> <<"U+24E7">>], [ch |-> "U+24CE", to |-> <<"U+24E8">>], [ch |-> "U+24CF", to |-> <<"U+24E9">>],
     [ch |-> "U+2C00", to |-> <<"U+2C30">>], [ch |-> "U+2C01", to |-> <<"U+2C31">>], [ch |-> "U+2C02", to |-> <<"U+2C32">>],
     [ch |-> "U+2C03", to |-> <<"U+2C33">>], [ch |-> "U+2C04", to |-> <<"U+2C34">>], [ch |-> "U+2C05", to |-> <<"U+2C35">>],
     [ch |-> "U+2C06", to |-> <<"U+2C36">>], [ch |-> "U+2C07", to |-> <<"U+2C37">>], [ch |-> "U+2C08", to |-> <<"U+2C38">>],
     [ch |-> "U+2C09", to |-> <<"U+2C39">>], [ch |-> "U+2C0A", to |-> <<"U+2C3A">>], [ch |-> "U+2C0B", to |-> <<"U+2C3B">>],
     [ch |-> "U+2C0C", to |-> <<"U+2C3C">>], [ch |-> "U+2C0D", to |-> <<"U+2C3D">>], [ch |-> "U+2C0E", to |-> <<"U+2C3E">>],
     [ch |-> "U+2C0F", to |-> <<"U+2C3F">>], [ch |-> "U+2C10", to |-> <<"U+2C40">>], [ch |-> "U+2C11", to |-> <<"U+2C41">>],
     [ch |-> "U+2C12", to |-> <<"U+2C42">>], [ch |-> "U+2C13", to |-> <<"U+2C43">>], [ch |-> "U+2C14", to |-> <<"U+2C44">>],
     [ch |-> "U+2C15", to |-> <<"U+2C45">>], [ch |-> "U+2C16", to |-> <<"U+2C46">>], [ch |-> "U+2C17", to |-> <<"U+2C47">>],
     [ch |-> "U+2C18", to |-> <<"U+2C48">>], [ch |-> "U+2C19", to |-> <<"U+2C49">>], [ch |-> "U+2C1A", to |-> <<"U+2C4A">>],
     [ch |-> "U+2C1B", to |-> <<"U+2C4B">>], [ch |-> "U+2C1C", to |-> <<"U+2C4C">>], [ch |-> "U+2C1D", to |-> <<"U+2C4D">>],
     [ch |-> "U+2C1E", to |-> <<"U+2C4E">>], [ch |-> "U+2C1F", to |-> <<"U+2C4F">>], [ch |-> "U+2C20", to |-> <<"U+2C50">>],
     [ch |-> "U+2C21", to |-> <<"U+2C51">>], [ch |-> "U+2C22", to |-> <<"U+2C52">>], [ch |-> "U+2C23", to |-> <<"U+2C53">>],
     [ch |-> "U+2C24", to |-> <<"U+2C54">>], [ch |-> "U+2C25", to |-> <<"U+2C55">>], [ch |-> "U+2C26", to |-> <<"U+2C56">>],
     [ch |-> "U+2C27", to |-> <<"U+2C57">>], [ch |-> "U+2C28", to |-> <<"U+2C58">>], [ch |-> "U+2C29", to |-> <<"U+2C59">>],
     [ch |-> "U+2C2A", to |-> <<"U+2C5A">>], [ch |-> "U+2C2B", to |-> <<"U+2C5B">>], [ch |-> "U+2C2C", to |-> <<"U+2C5C">>],
     [ch |-> "U+2C2D", to |-> <<"U+2C5D">>], [ch |-> "U+2C2E", to |-> <<"U+2C5E">>], [ch |-> "U+2C2F", to |-> <<"U+2C5F">>],
     [ch |-> "U+2C60", to |-> <<"U+2C61">>], [ch |-> "U+2C62", to |-> <<"U+026B">>], [ch |-> "U+2C63", to |-> <<"U+1D7D">>],
     [ch |-> "U+2C64", to |-> <<"U+027D">>], [ch |-> "U+2C67", to |-> <<"U+2C68">>], [ch |-> "U+2C69", to |-> <<"U+2C6A">>],
     [ch |-> "U+2C6B", to |-> <<"U+2C6C">>], [ch |-> "U+2C6D", to |-> <<"U+0251">>], [ch |-> "U+2C6E", to |-> <<"U+0271">>],
     [ch |-> "U+2C6F", to |-> <<"U+0250">>], [ch |-> "U+2C70", to |-> <<"U+0252">>], [ch |-> "U+2C72", to |-> <<"U+2C73">>],
     [ch |-> "U+2C75", to |-> <<"U+2C76">>], [ch |-> "U+2C7E", to |-> <<"U+023F">>], [ch |-> "U+2C7F", to |-> <<"U+0240">>],
     [ch |-> "U+2C80", to |-> <<"U+2C81">>], [ch |-> "U+2C82", to |-> <<"U+2C83">>], [ch |-> "U+2C84", to |-> <<"U+2C85">>],
     [ch |-> "U+2C86", to |-> <<"U+2C87">>], [ch |-> "U+2C88", to |-> <<"U+2C89">>], [ch |-> "U+2C8A", to |-> <<"U+2C8B">>],
     [ch |-> "U+2C8C", to |-> <<"U+2C8D">>], [ch |-> "U+2C8E", to |-> <<"U+2C8F">>], [ch |-> "U+2C90", to |-> <<"U+2C91">>],
     [ch |-> "U+2C92", to |-> <<"U+2C93">>], [ch |-> "U+2C94", to |-> <<"U+2C95">>], [ch |-> "U+2C96", to |-> <<"U+2C97">>],
     [ch |-> "U+2C98", to |-> <<"U+2C99">>], [ch |-> "U+2C9A", to |-> <<"U+2C9B">>], [ch |-> "U+2C9C", to |-> <<"U+2C9D">>],
     [ch |-> "U+2C9E", to |-> <<"U+2C9F">>], [ch |-> "U+2CA0", to |-> <<"U+2CA1">>], [ch |-> "U+2CA2", to |-> <<"U+2CA3">>],
     [ch |-> "U+2CA4", to |-> <<"U+2CA5">>], [ch |-> "U+2CA6", to |-> <<"U+2CA7">>], [ch |-> "U+2CA8", to |-> <<"U+2CA9">>],
     [ch |-> "U+2CAA", to |-> <<"U+2CAB">>], [ch |-> "U+2CAC", to |-> <<"U+2CAD">>], [ch |-> "U+2CAE", to |-> <<"U+2CAF">>],
     [ch |-> "U+2CB0", to |-> <<"U+2CB1">>], [ch |-> "U+2CB2", to |-> <<"U+2CB3">>], [ch |-> "U+2CB4", to |-> <<"U+2CB5">>],
     [ch |-> "U+2CB6", to |-> <<"U+2CB7">>], [ch |-> "U+2CB8", to |-> <<"U+2CB9">>], [ch |-> "U+2CBA", to |-> <<"U+2CBB">>],
     [ch |-> "U+2CBC", to |-> <<"U+2CBD">>], [ch |-> "U+2CBE", to |-> <<"U+2CBF">>], [ch |-> "U+2CC0", to |-> <<"U+2CC1">>],
     [ch |-> "U+2CC2", to |-> <<"U+2CC3">>], [ch |-> "U+2CC4", to |-> <<"U+2CC5">>], [ch |-> "U+2CC6", to |-> <<"U+2CC7">>],
     [ch |-> "U+2CC8", to |-> <<"U+2CC9">>], [ch |-> "U+2CCA", to |-> <<"U+2CCB">>], [ch |-> "U+2CCC", to |-> <<"U+2CCD">>],
     [ch |-> "U+2CCE", to |-> <<"U+2CCF">>], [ch |-> "U+2CD0", to |-> <<"U+2CD1">>], [ch |-> "U+2CD2", to |-> <<"U+2CD3">>],
     [ch |-> "U+2CD4", to |-> <<"U+2CD5">>], [ch |-> "U+2CD6", to |-> <<"U+2CD7">>], [ch |-> "U+2CD8", to |-> <<"U+2CD9">>],
     [ch |-> "U+2CDA", to |-> <<"U+2CDB">>], [ch |-> "U+2CDC", to |-> <<"U+2CDD">>], [ch |-> "U+2CDE", to |-> <<"U+2CDF">>],
     [ch |-> "U+2CE0", to |-> <<"U+2CE1">>], [ch |-> "U+2CE2", to |-> <<"U+2CE3">>], [ch |-> "U+2CEB", to |-> <<"U+2CEC">>],
     [ch |-> "U+2CED", to |-> <<"U+2CEE">>], [ch |-> "U+2CF2", to |-> <<"U+2CF3">>], [ch |-> "U+A640", to |-> <<"U+A641">>],
     [ch |-> "U+A642", to |-> <<"U+A643">>], [ch |-> "U+A644", to |-> <<"U+A645">>], [ch |-> "U+A646", to |-> <<"U+A647">>],
     [ch |-> "U+A648", to |-> <<"U+A649">>], [ch |-> "U+A64A", to |-> <<"U+A64B">>], [ch |-> "U+A64C", to |-> <<"U+A64D">>],
     [ch |-> "U+A64E", to |-> <<"U+A64F">>], [ch |-> "U+A650", to |-> <<"U+A651">>], [ch |-> "U+A652", to |-> <<"U+A653">>],
     [ch |-> "U+A654", to |-> <<"U+A655">>], [ch |-> "U+A656", to |-> <<"U+A657">>], [ch |-> "U+A658", to |-> <<"U+A659">>],
     [ch |-> "U+A65A", to |-> <<"U+A65B">>], [ch |-> "U+A65C", to |-> <<"U+A65D">>], [ch |-> "U+A65E", to |-> <<"U+A65F">>],
     [ch |-> "U+A660", to |-> <<"U+A661">>], [ch |-> "U+A662", to |-> <<"U+A663">>], [ch |-> "U+A664", to |-> <<"U+A665">>],
     [ch |-> "U+A666", to |-> <<"U+A667">>], [ch |-> "U+A668", to |-> <<"U+A669">>], [ch |-> "U+A66A", to |-> <<"U+A66B">>],
     [ch |-> "U+A66C", to |-> <<"U+A66D">>], [ch |-> "U+A680", to |-> <<"U+A681">>], [ch |-> "U+A682", to |-> <<"U+A683">>],
     [ch |-> "U+A684", to |-> <<"U+A685">>], [ch |-> "U+A686", to |-> <<"U+A687">>], [ch |-> "U+A688", to |-> <<"U+A689">>],
     [ch |-> "U+A68A", to |-> <<"U+A68B">>], [ch |-> "U+A68C", to |-> <<"U+A68D">>], [ch |-> "U+A68E", to |-> <<"U+A68F">>],
     [ch |-> "U+A690", to |-> <<"U+A691">>], [ch |-> "U+A692", to |-> <<"U+A693">>], [ch |-> "U+A694", to |-> <<"U+A695">>],
     [ch |-> "U+A696", to |-> <<"U+A697">>], [ch |-> "U+A698", to |-> <<"U+A699">>], [ch |-> "U+A69A", to |-> <<"U+A69B">>],
     [ch |-> "U+A722", to |-> <<"U+A723">>], [ch |-> "U+A724", to |-> <<"U+A725">>], [ch |-> "U+A726", to |-> <<"U+A727">>],
     [ch |-> "U+A728", to |-> <<"U+A729">>], [ch |-> "U+A72A", to |-> <<"U+A72B">>], [ch |-> "U+A72C", to |-> <<"U+A72D">>],
     [ch |-> "U+A72E", to |-> <<"U+A72F">>], [ch |-> "U+A732", to |-> <<"U+A733">>], [ch |-> "U+A734", to |-> <<"U+A735">>],
     [ch |-> "U+A736", to |-> <<"U+A737">>], [ch |-> "U+A738", to |-> <<"U+A739">>], [ch |-> "U+A73A", to |-> <<"U+A73B">>],
     [ch |-> "U+A73C", to |-> <<"U+A73D">>], [ch |-> "U+A73E", to |-> <<"U+A73F">>], [ch |-> "U+A740", to |-> <<"U+A741">>],
     [ch |-> "U+A742", to |-> <<"U+A743">>], [ch |-> "U+A744", to |-> <<"U+A745">>], [ch |-> "U+A746", to |-> <<"U+A747">>],
     [ch |-> "U+A748", to |-> <<"U+A749">>], [ch |-> "U+A74A", to |-> <<"U+A74B">>], [ch |-> "U+A74C", to |-> <<"U+A74D">>],
     [ch |-> "U+A74E", to |-> <<"U+A74F">>], [ch |-> "U+A750", to |-> <<"U+A751">>], [ch |-> "U+A752", to |-> <<"U+A753">>],
     [ch |-> "U+A754", to |-> <<"U+A755">>], [ch |-> "U+A756", to |-> <<"U+A757">>], [ch |-> "U+A758", to |-> <<"U+A759">>],
     [ch |-> "U+A75A", to |-> <<"U+A75B">>], [ch |-> "U+A75C", to |-> <<"U+A75D">>], [ch |-> "U+A75E", to |-> <<"U+A75F">>],
     [ch |-> "U+A760", to |-> <<"U+A761">>], [ch |-> "U+A762", to |-> <<"U+A763">>], [ch |-> "U+A764", to |-> <<"U+A765">>],
     [ch |-> "U+A766", to |-> <<"U+A767">>], [ch |-> "U+A768", to |-> <<"U+A769">>], [ch |-> "U+A76A", to |-> <<"U+A76B">>],
     [ch |-> "U+A76C", to |-> <<"U+A76D">>], [ch |-> "U+A76E", to |-> <<"U+A76F">>], [ch |-> "U+A779", to |-> <<"U+A77A">>],
     [ch |-> "U+A77B", to |-> <<"U+A77C">>], [ch |-> "U+A77D", to |-> <<"U+1D79">>], [ch |-> "U+A77E", to |-> <<"U+A77F">>],
     [ch |-> "U+A780", to |-> <<"U+A781">>], [ch |-> "U+A782", to |-> <<"U+A783">>], [ch |-> "U+A784", to |-> <<"U+A785">>],
     [ch |-> "U+A786", to |-> <<"U+A787">>], [ch |-> "U+A78B", to |-> <<"U+A78C">>], [ch |-> "U+A78D", to |-> <<"U+0265">>],
     [ch |-> "U+A790", to |-> <<"U+A791">>], [ch |-> "U+A792", to |-> <<"U+A793">>], [ch |-> "U+A796", to |-> <<"U+A797">>],
     [ch |-> "U+A798", to |-> <<"U+A799">>], [ch |-> "U+A79A", to |-> <<"U+A79B">>], [ch |-> "U+A79C", to |-> <<"U+A79D">>],
     [ch |-> "U+A79E", to |-> <<"U+A79F">>], [ch |-> "U+A7A0", to |-> <<"U+A7A1">>], [ch |-> "U+A7A2", to |-> <<"U+A7A3">>],
     [ch |-> "U+A7A4", to |-> <<"U+A7A5">>], [ch |-> "U+A7A6", to |-> <<"U+A7A7">>], [ch |-> "U+A7A8", to |-> <<"U+A7A9">>],
     [ch |-> "U+A7AA", to |-> <<"U+0266">>], [ch |-> "U+A7AB", to |-> <<"U+025C">>], [ch |-> "U+A7AC", to |-> <<"U+0261">>],
     [ch |-> "U+A7AD", to |-> <<"U+026C">>], [ch |-> "U+A7AE", to |-> <<"U+026A">>], [ch |-> "U+A7B0", to |-> <<"U+029E">>],
     [ch |-> "U+A7B1", to |-> <<"U+0287">>], [ch |-> "U+A7B2", to |-> <<"U+029D">>], [ch |-> "U+A7B3", to |-> <<"U+AB53">>],
     [ch |-> "U+A7B4", to |-> <<"U+A7B5">>], [ch |-> "U+A7B6", to |-> <<"U+A7B7">>], [ch |-> "U+A7B8", to |-> <<"U+A7B9">>],
     [ch |-> "U+A7BA", to |-> <<"U+A7BB">>], [ch |-> "U+A7BC", to |-> <<"U+A7BD">>], [ch |-> "U+A7BE", to |-> <<"U+A7BF">>],
     [ch |-> "U+A7C0", to |-> <<"U+A7C1">>], [ch |-> "U+A7C2", to |-> <<"U+A7C3">>], [ch |-> "U+A7C4", to |-> <<"U+A794">>],
     [ch |-> "U+A7C5", to |-> <<"U+0282">>], [ch |-> "U+A7C6", to |-> <<"U+1D8E">>], [ch |-> "U+A7C7", to |-> <<"U+A7C8">>],
     [ch |-> "U+A7C9", to |-> <<"U+A7CA">>], [ch |-> "U+A7D0", to |-> <<"U+A7D1">>], [ch |-> "U+A7D6", to |-> <<"U+A7D7">>],
     [ch |-> "U+A7D8", to |-> <<"U+A7D9">>], [ch |-> "U+A7F5", to |-> <<"U+A7F6">>], [ch |-> "U+FF21", to |-> <<"U+FF41">>],
     [ch |-> "U+FF22", to |-> <<"U+FF42">>], [ch |-> "U+FF23", to |-> <<"U+FF43">>], [ch |-> "U+FF24", to |-> <<"U+FF44">>],
     [ch |-> "U+FF25", to |-> <<"U+FF45">>], [ch |-> "U+FF26", to |-> <<"U+FF46">>], [ch |-> "U+FF27", to |-> <<"U+FF47">>],
     [ch |-> "U+FF28", to |-> <<"U+FF48">>], [ch |-> "U+FF29", to |-> <<"U+FF49">>], [ch |-> "U+FF2A", to |-> <<"U+FF4A">>],
     [ch |-> "U+FF2B", to |-> <<"U+FF4B">>], [ch |-> "U+FF2C", to |-> <<"U+FF4C">>], [ch |-> "U+FF2D", to |-> <<"U+FF4D">>],
     [ch |-> "U+FF2E", to |-> <<"U+FF4E">>], [ch |-> "U+FF2F", to |-> <<"U+FF4F">>], [ch |-> "U+FF30", to |-> <<"U+FF50">>],
     [ch |-> "U+FF31", to |-> <<"U+FF51">>], [ch |-> "U+FF32", to |-> <<"U+FF52">>], [ch |-> "U+FF33", to |-> <<"U+FF53">>],
     [ch |-> "U+FF34", to |-> <<"U+FF54">>], [ch |-> "U+FF35", to |-> <<"U+FF55">>], [ch |-> "U+FF36", to |-> <<"U+FF56">>],
     [ch |-> "U+FF37", to |-> <<"U+FF57">>], [ch |-> "U+FF38", to |-> <<"U+FF58">>], [ch |-> "U+FF39", to |-> <<"U+FF59">>],
     [ch |-> "U+FF3A", to |-> <<"U+FF5A">>], [ch |-> "U+10400", to |-> <<"U+10428">>], [ch |-> "U+10401", to |-> <<"U+10429">>],
     [ch |-> "U+10402", to |-> <<"U+1042A">>], [ch |-> "U+10403", to |-> <<"U+1042B">>], [ch |-> "U+10404", to |-> <<"U+1042C">>],
     [ch |-> "U+10405", to |-> <<"U+1042D">>], [ch |-> "U+10406", to |-> <<"U+1042E">>], [ch |-> "U+10407", to |-> <<"U+1042F">>],
     [ch |-> "U+10408", to |-> <<"U+10430">>], [ch |-> "U+10409", to |-> <<"U+10431">>], [ch |-> "U+1040A", to |-> <<"U+10432">>],
     [ch |-> "U+1040B", to |-> <<"U+10433">>], [ch |-> "U+1040C", to |-> <<"U+10434">>], [ch |-> "U+1040D", to |-> <<"U+10435">>],
     [ch |-> "U+1040E", to |-> <<"U+10436">>], [ch |-> "U+1040F", to |-> <<"U+10437">>], [ch |-> "U+10410", to |-> <<"U+10438">>],
     [ch |-> "U+10411", to |-> <<"U+10439">>], [ch |-> "U+10412", to |-> <<"U+1043A">>], [ch |-> "U+10413", to |-> <<"U+1043B">>],
     [ch |-> "U+10414", to |-> <<"U+1043C">>], [ch |-> "U+10415", to |-> <<"U+1043D">>], [ch |-> "U+10416", to |-> <<"U+1043E">>],
     [ch |-> "U+10417", to |-> <<"U+1043F">>], [ch |-> "U+10418", to |-> <<"U+10440">>], [ch |-> "U+10419", to |-> <<"U+10441">>],
     [ch |-> "U+1041A", to |-> <<"U+10442">>], [ch |-> "U+1041B", to |-> <<"U+10443">>], [ch |-> "U+1041C", to |-> <<"U+10444">>],
     [ch |-> "U+1041D", to |-> <<"U+10445">>], [ch |-> "U+1041E", to |-> <<"U+10446">>], [ch |-> "U+1041F", to |-> <<"U+10447">>],
     [ch |-> "U+10420", to |-> <<"U+10448">>], [ch |-> "U+10421", to |-> <<"U+10449">>], [ch |-> "U+10422", to |-> <<"U+1044A">>],
     [ch |-> "U+10423", to |-> <<"U+1044B">>], [ch |-> "U+10424", to |-> <<"U+1044C">>], [ch |-> "U+10425", to |-> <<"U+1044D">>],
     [ch |-> "U+10426", to |-> <<"U+1044E">>], [ch |-> "U+10427", to |-> <<"U+1044F">>], [ch |-> "U+104B0", to |-> <<"U+104D8">>],
     [ch |-> "U+104B1", to |-> <<"U+104D9">>], [ch |-> "U+104B2", to |-> <<"U+104DA">>], [ch |-> "U+104B3", to |-> <<"U+104DB">>],
     [ch |-> "U+104B4", to |-> <<"U+104DC">>], [ch |-> "U+104B5", to |-> <<"U+104DD">>], [ch |-> "U+104B6", to |-> <<"U+104DE">>],
     [ch |-> "U+104B7", to |-> <<"U+104DF">>], [ch |-> "U+104B8", to |-> <<"U+104E0">>], [ch |-> "U+104B9", to |-> <<"U+104E1">>],
     [ch |-> "U+104BA", to |-> <<"U+104E2">>], [ch |-> "U+104BB", to |-> <<"U+104E3">>], [ch |-> "U+104BC", to |-> <<"U+104E4">>],
     [ch |-> "U+104BD", to |-> <<"U+104E5">>], [ch |-> "U+104BE", to |-> <<"U+104E6">>], [ch |-> "U+104BF", to |-> <<"U+104E7">>],
     [ch |-> "U+104C0", to |-> <<"U+104E8">>], [ch |-> "U+104C1", to |-> <<"U+104E9">>], [ch |-> "U+104C2", to |-> <<"U+104EA">>],
     [ch |-> "U+104C3", to |-> <<"U+104EB">>], [ch |-> "U+104C4", to |-> <<"U+104EC">>], [ch |-> "U+104C5", to |-> <<"U+104ED">>],
     [ch |-> "U+104C6", to |-> <<"U+104EE">>], [ch |-> "U+104C7", to |-> <<"U+104EF">>], [ch |-> "U+104C8", to |-> <<"U+104F0">>],
     [ch |-> "U+104C9", to |-> <<"U+104F1">>], [ch |-> "U+104CA", to |-> <<"U+104F2">>], [ch |-> "U+104CB", to |-> <<"U+104F3">>],
     [ch |-> "U+104CC", to |-> <<"U+104F4">>], [ch |-> "U+104CD", to |-> <<"U+104F5">>], [ch |-> "U+104CE", to |-> <<"U+104F6">>],
     [ch |-> "U+104CF", to |-> <<"U+104F7">>], [ch |-> "U+104D0", to |-> <<"U+104F8">>], [ch |-> "U+104D1", to |-> <<"U+104F9">>],
     [ch |-> "U+104D2", to |-> <<"U+104FA">>], [ch |-> "U+104D3", to |-> <<"U+104FB">>], [ch |-> "U+10570", to |-> <<"U+10597">>],
     [ch |-> "U+10571", to |-> <<"U+10598">>], [ch |-> "U+10572", to |-> <<"U+10599">>], [ch |-> "U+10573", to |-> <<"U+1059A">>],
     [ch |-> "U+10574", to |-> <<"U+1059B">>], [ch |-> "U+10575", to |-> <<"U+1059C">>], [ch |-> "U+10576", to |-> <<"U+1059D">>],
     [ch |-> "U+10577", to |-> <<"U+1059E">>], [ch |-> "U+10578", to |-> <<"U+1059F">>], [ch |-> "U+10579", to |-> <<"U+105A0">>],
     [ch |-> "U+1057A", to |-> <<"U+105A1">>], [ch |-> "U+1057C", to |-> <<"U+105A3">>], [ch |-> "U+1057D", to |-> <<"U+105A4">>],
     [ch |-> "U+1057E", to |-> <<"U+105A5">>], [ch |-> "U+1057F", to |-> <<"U+105A6">>], [ch |-> "U+10580", to |-> <<"U+105A7">>],
     [ch |-> "U+10581", to |-> <<"U+105A8">>], [ch |-> "U+10582", to |-> <<"U+105A9">>], [ch |-> "U+10583", to |-> <<"U+105AA">>],
     [ch |-> "U+10584", to |-> <<"U+105AB">>], [ch |-> "U+10585", to |-> <<"U+105AC">>], [ch |-> "U+10586", to |-> <<"U+105AD">>],
     [ch |-> "U+10587", to |-> <<"U+105AE">>], [ch |-> "U+10588", to |-> <<"U+105AF">>], [ch |-> "U+10589", to |-> <<"U+105B0">>],
     [ch |-> "U+1058A", to |-> <<"U+105B1">>], [ch |-> "U+1058C", to |-> <<"U+105B3">>], [ch |-> "U+1058D", to |-> <<"U+105B4">>],
     [ch |-> "U+1058E", to |-> <<"U+105B5">>], [ch |-> "U+1058F", to |-> <<"U+105B6">>], [ch |-> "U+10590", to |-> <<"U+105B7">>],
     [ch |-> "U+10591", to |-> <<"U+105B8">>], [ch |-> "U+10592", to |-> <<"U+105B9">>], [ch |-> "U+10594", to |-> <<"U+105BB">>],
     [ch |-> "U+10595", to |-> <<"U+105BC">>], [ch |-> "U+10C80", to |-> <<"U+10CC0">>], [ch |-> "U+10C81", to |-> <<"U+10CC1">>],
     [ch |-> "U+10C82", to |-> <<"U+10CC2">>], [ch |-> "U+10C83", to |-> <<"U+10CC3">>], [ch |-> "U+10C84", to |-> <<"U+10CC4">>],
     [ch |-> "U+10C85", to |-> <<"U+10CC5">>], [ch |-> "U+10C86", to |-> <<"U+10CC6">>], [ch |-> "U+10C87", to |-> <<"U+10CC7">>],
     [ch |-> "U+10C88", to |-> <<"U+10CC8">>], [ch |-> "U+10C89", to |-> <<"U+10CC9">>], [ch |-> "U+10C8A", to |-> <<"U+10CCA">>],
     [ch |-> "U+10C8B", to |-> <<"U+10CCB">>], [ch |-> "U+10C8C", to |-> <<"U+10CCC">>], [ch |-> "U+10C8D", to |-> <<"U+10CCD">>],
     [ch |-> "U+10C8E", to |-> <<"U+10CCE">>], [ch |-> "U+10C8F", to |-> <<"U+10CCF">>], [ch |-> "U+10C90", to |-> <<"U+10CD0">>],
     [ch |-> "U+10C91", to |-> <<"U+10CD1">>], [ch |-> "U+10C92", to |-> <<"U+10CD2">>], [ch |-> "U+10C93", to |-> <<"U+10CD3">>],
     [ch |-> "U+10C94", to |-> <<"U+10CD4">>], [ch |-> "U+10C95", to |-> <<"U+10CD5">>], [ch |-> "U+10C96", to |-> <<"U+10CD6">>],
     [ch |-> "U+10C97", to |-> <<"U+10CD7">>], [ch |-> "U+10C98", to |-> <<"U+10CD8">>], [ch |-> "U+10C99", to |-> <<"U+10CD9">>],
     [ch |-> "U+10C9A", to |-> <<"U+10CDA">>], [ch |-> "U+10C9B", to |-> <<"U+10CDB">>], [ch |-> "U+10C9C", to |-> <<"U+10CDC">>],
     [ch |-> "U+10C9D", to |-> <<"U+10CDD">>], [ch |-> "U+10C9E", to |-> <<"U+10CDE">>], [ch |-> "U+10C9F", to |-> <<"U+10CDF">>],
     [ch |-> "U+10CA0", to |-> <<"U+10CE0">>], [ch |-> "U+10CA1", to |-> <<"U+10CE1">>], [ch |-> "U+10CA2", to |-> <<"U+10CE2">>],
     [ch |-> "U+10CA3", to |-> <<"U+10CE3">>], [ch |-> "U+10CA4", to |-> <<"U+10CE4">>], [ch |-> "U+10CA5", to |-> <<"U+10CE5">>],
     [ch |-> "U+10CA6", to |-> <<"U+10CE6">>], [ch |-> "U+10CA7", to |-> <<"U+10CE7">>], [ch |-> "U+10CA8", to |-> <<"U+10CE8">>],
     [ch |-> "U+10CA9", to |-> <<"U+10CE9">>], [ch |-> "U+10CAA", to |-> <<"U+10CEA">>], [ch |-> "U+10CAB", to |-> <<"U+10CEB">>],
     [ch |-> "U+10CAC", to |-> <<"U+10CEC">>], [ch |-> "U+10CAD", to |-> <<"U+10CED">>], [ch |-> "U+10CAE", to |-> <<"U+10CEE">>],
     [ch |-> "U+10CAF", to |-> <<"U+10CEF">>], [ch |-> "U+10CB0", to |-> <<"U+10CF0">>], [ch |-> "U+10CB1", to |-> <<"U+10CF1">>],
     [ch |-> "U+10CB2", to |-> <<"U+10CF2">>], [ch |-> "U+118A0", to |-> <<"U+118C0">>], [ch |-> "U+118A1", to |-> <<"U+118C1">>],
     [ch |-> "U+118A2", to |-> <<"U+118C2">>], [ch |-> "U+118A3", to |-> <<"U+118C3">>], [ch |-> "U+118A4", to |-> <<"U+118C4">>],
     [ch |-> "U+118A5", to |-> <<"U+118C5">>], [ch |-> "U+118A6", to |-> <<"U+118C6">>], [ch |-> "U+118A7", to |-> <<"U+118C7">>],
     [ch |-> "U+118A8", to |-> <<"U+118C8">>], [ch |-> "U+118A9", to |-> <<"U+118C9">>], [ch |-> "U+118AA", to |-> <<"U+118CA">>],
     [ch |-> "U+118AB", to |-> <<"U+118CB">>], [ch |-> "U+118AC", to |-> <<"U+118CC">>], [ch |-> "U+118AD", to |-> <<"U+118CD">>],
     [ch |-> "U+118AE", to |-> <<"U+118CE">>], [ch |-> "U+118AF", to |-> <<"U+118CF">>], [ch |-> "U+118B0", to |-> <<"U+118D0">>],
     [ch |-> "U+118B1", to |-> <<"U+118D1">>], [ch |-> "U+118B2", to |-> <<"U+118D2">>], [ch |-> "U+118B3", to |-> <<"U+118D3">>],
     [ch |-> "U+118B4", to |-> <<"U+118D4">>], [ch |-> "U+118B5", to |-> <<"U+118D5">>], [ch |-> "U+118B6", to |-> <<"U+118D6">>],
     [ch |-> "U+118B7", to |-> <<"U+118D7">>], [ch |-> "U+118B8", to |-> <<"U+118D8">>], [ch |-> "U+118B9", to |-> <<"U+118D9">>],
     [ch |-> "U+118BA", to |-> <<"U+118DA">>], [ch |-> "U+118BB", to |-> <<"U+118DB">>], [ch |-> "U+118BC", to |-> <<"U+118DC">>],
     [ch |-> "U+118BD", to |-> <<"U+118DD">>], [ch |-> "U+118BE", to |-> <<"U+118DE">>], [ch |-> "U+118BF", to |-> <<"U+118DF">>],
     [ch |-> "U+16E40", to |-> <<"U+16E60">>], [ch |-> "U+16E41", to |-> <<"U+16E61">>], [ch |-> "U+16E42", to |-> <<"U+16E62">>],
     [ch |-> "U+16E43", to |-> <<"U+16E63">>], [ch |-> "U+16E44", to |-> <<"U+16E64">>], [ch |-> "U+16E45", to |-> <<"U+16E65">>],
     [ch |-> "U+16E46", to |-> <<"U+16E66">>], [ch |-> "U+16E47", to |-> <<"U+16E67">>], [ch |-> "U+16E48", to |-> <<"U+16E68">>],
     [ch |-> "U+16E49", to |-> <<"U+16E69">>], [ch |-> "U+16E4A", to |-> <<"U+16E6A">>], [ch |-> "U+16E4B", to |-> <<"U+16E6B">>],
     [ch |-> "U+16E4C", to |-> <<"U+16E6C">>], [ch |-> "U+16E4D", to |-> <<"U+16E6D">>], [ch |-> "U+16E4E", to |-> <<"U+16E6E">>],
     [ch |-> "U+16E4F", to |-> <<"U+16E6F">>], [ch |-> "U+16E50", to |-> <<"U+16E70">>], [ch |-> "U+16E51", to |-> <<"U+16E71">>],
     [ch |-> "U+16E52", to |-> <<"U+16E72">>], [ch |-> "U+16E53", to |-> <<"U+16E73">>], [ch |-> "U+16E54", to |-> <<"U+16E74">>],
     [ch |-> "U+16E55", to |-> <<"U+16E75">>], [ch |-> "U+16E56", to |-> <<"U+16E76">>], [ch |-> "U+16E57", to |-> <<"U+16E77">>],
     [ch |-> "U+16E58", to |-> <<"U+16E78">>], [ch |-> "U+16E59", to |-> <<"U+16E79">>], [ch |-> "U+16E5A", to |-> <<"U+16E7A">>],
     [ch |-> "U+16E5B", to |-> <<"U+16E7B">>], [ch |-> "U+16E5C", to |-> <<"U+16E7C">>], [ch |-> "U+16E5D", to |-> <<"U+16E7D">>],
     [ch |-> "U+16E5E", to |-> <<"U+16E7E">>], [ch |-> "U+16E5F", to |-> <<"U+16E7F">>], [ch |-> "U+1E900", to |-> <<"U+1E922">>],
     [ch |-> "U+1E901", to |-> <<"U+1E923">>], [ch |-> "U+1E902", to |-> <<"U+1E924">>], [ch |-> "U+1E903", to |-> <<"U+1E925">>],
     [ch |-> "U+1E904", to |-> <<"U+1E926">>], [ch |-> "U+1E905", to |-> <<"U+1E927">>], [ch |-> "U+1E906", to |-> <<"U+1E928">>],
     [ch |-> "U+1E907", to |-> <<"U+1E929">>], [ch |-> "U+1E908", to |-> <<"U+1E92A">>], [ch |-> "U+1E909", to |-> <<"U+1E92B">>],
     [ch |-> "U+1E90A", to |-> <<"U+1E92C">>], [ch |-> "U+1E90B", to |-> <<"U+1E92D">>], [ch |-> "U+1E90C", to |-> <<"U+1E92E">>],
     [ch |-> "U+1E90D", to |-> <<"U+1E92F">>], [ch |-> "U+1E90E", to |-> <<"U+1E930">>], [ch |-> "U+1E90F", to |-> <<"U+1E931">>],
     [ch |-> "U+1E910", to |-> <<"U+1E932">>], [ch |-> "U+1E911", to |-> <<"U+1E933">>], [ch |-> "U+1E912", to |-> <<"U+1E934">>],
     [ch |-> "U+1E913", to |-> <<"U+1E935">>], [ch |-> "U+1E914", to |-> <<"U+1E936">>], [ch |-> "U+1E915", to |-> <<"U+1E937">>],
     [ch |-> "U+1E916", to |-> <<"U+1E938">>], [ch |-> "U+1E917", to |-> <<"U+1E939">>], [ch |-> "U+1E918", to |-> <<"U+1E93A">>],
     [ch |-> "U+1E919", to |-> <<"U+1E93B">>], [ch |-> "U+1E91A", to |-> <<"U+1E93C">>], [ch |-> "U+1E91B", to |-> <<"U+1E93D">>],
     [ch |-> "U+1E91C", to |-> <<"U+1E93E">>], [ch |-> "U+1E91D", to |-> <<"U+1E93F">>], [ch |-> "U+1E91E", to |-> <<"U+1E940">>],
     [ch |-> "U+1E91F", to |-> <<"U+1E941">>], [ch |-> "U+1E920", to |-> <<"U+1E942">>], [ch |-> "U+1E921", to |-> <<"U+1E943">>] >>
UpperTable ==
    << [ch |-> "U+00B5", to |-> <<"U+039C">>], [ch |-> "U+00DF", to |-> <<"S", "S">>], [ch |-> "U+00E0", to |-> <<"U+00C0">>],
     [ch |-> "U+00E1", to |-> <<"U+00C1">>], [ch |-> "U+00E2", to |-> <<"U+00C2">>], [ch |-> "U+00E3", to |-> <<"U+00C3">>],
     [ch |-> "U+00E4", to |-> <<"U+00C4">>], [ch |-> "U+00E5", to |-> <<"U+00C5">>], [ch |-> "U+00E6", to |-> <<"U+00C6">>],
     [ch |-> "U+00E7", to |-> <<"U+00C7">>], [ch |-> "U+00E8", to |-> <<"U+00C8">>], [ch |-> "U+00E9", to |-> <<"U+00C9">>],
     [ch |-> "U+00EA", to |-> <<"U+00CA">>], [ch |-> "U+00EB", to |-> <<"U+00CB">>], [ch |-> "U+00EC", to |-> <<"U+00CC">>],
     [ch |-> "U+00ED", to |-> <<"U+00CD">>], [ch |-> "U+00EE", to |-> <<"U+00CE">>], [ch |-> "U+00EF", to |-> <<"U+00CF">>],
     [ch |-> "U+00F0", to |-> <<"U+00D0">>], [ch |-> "U+00F1", to |-> <<"U+00D1">>], [ch |-> "U+00F2", to |-> <<"U+00D2">>],
     [ch |-> "U+00F3", to |-> <<"U+00D3">>], [ch |-> "U+00F4", to |-> <<"U+00D4">>], [ch |-> "U+00F5", to |-> <<"U+00D5">>],
     [ch |-> "U+00F6", to |-> <<"U+00D6">>], [ch |-> "U+00F8", to |-> <<"U+00D8">>], [ch |-> "U+00F9", to |-> <<"U+00D9">>],
     [ch |-> "U+00FA", to |-> <<"U+00DA">>], [ch |-> "U+00FB", to |-> <<"U+00DB">>], [ch |-> "U+00FC", to |-> <<"U+00DC">>],
     [ch |-> "U+00FD", to |-> <<"U+00DD">>], [ch |-> "U+00FE", to |-> <<"U+00DE">>], [ch |-> "U+00FF", to |-> <<"U+0178">>],
     [ch |-> "U+0101", to |-> <<"U+0100">>], [ch |-> "U+0103", to |-> <<"U+0102">>], [ch |-> "U+0105", to |-> <<"U+0104">>],
     [ch |-> "U+0107", to |-> <<"U+0106">>], [ch |-> "U+0109", to |-> <<"U+0108">>], [ch |-> "U+010B", to |-> <<"U+010A">>],
     [ch |-> "U+010D", to |-> <<"U+010C">>], [ch |-> "U+010F", to |-> <<"U+010E">>], [ch |-> "U+0111", to |-> <<"U+0110">>],
     [ch |-> "U+0113", to |-> <<"U+0112">>], [ch |-> "U+0115", to |-> <<"U+0114">>], [ch |-> "U+0117", to |-> <<"U+0116">>],
     [ch |-> "U+0119", to |-> <<"U+0118">>], [ch |-> "U+011B", to |-> <<"U+011A">>], [ch |-> "U+011D", to |-> <<"U+011C">>],
     [ch |-> "U+011F", to |-> <<"U+011E">>], [ch |-> "U+0121", to |-> <<"U+0120">>], [ch |-> "U+0123", to |-> <<"U+0122">>],
     [ch |-> "U+0125", to |-> <<"U+0124">>], [ch |-> "U+0127", to |-> <<"U+0126">>], [ch |-> "U+0129", to |-> <<"U+0128">>],
     [ch |-> "U+012B", to |-> <<"U+012A">>], [ch |-> "U+012D", to |-> <<"U+012C">>], [ch |-> "U+012F", to |-> <<"U+012E">>],
     [ch |-> "U+0131", to |-> <<"I">>], [ch |-> "U+0133", to |-> <<"U+0132">>], [ch |-> "U+0135", to |-> <<"U+0134">>],
     [ch |-> "U+0137", to |-> <<"U+0136">>], [ch |-> "U+013A", to |-> <<"U+0139">>], [ch |-> "U+013C", to |-> <<"U+013B">>],
     [ch |-> "U+013E", to |-> <<"U+013D">>], [ch |-> "U+0140", to |-> <<"U+013F">>], [ch |-> "U+0142", to |-> <<"U+0141">>],
     [ch |-> "U+0144", to |-> <<"U+0143">>], [ch |-> "U+0146", to |-> <<"U+0145">>], [ch |-> "U+0148", to |-> <<"U+0147">>],
     [ch |-> "U+0149", to |-> <<"U+02BC", "N">>], [ch |-> "U+014B", to |-> <<"U+014A">>], [ch |-> "U+014D", to |-> <<"U+014C">>],
     [ch |-> "U+014F", to |-> <<"U+014E">>], [ch |-> "U+0151", to |-> <<"U+0150">>], [ch |-> "U+0153", to |-> <<"U+0152">>],
     [ch |-> "U+0155", to |-> <<"U+0154">>], [ch |-> "U+0157", to |-> <<"U+0156">>], [ch |-> "U+0159", to |-> <<"U+0158">>],
     [ch |-> "U+015B", to |-> <<"U+015A">>], [ch |-> "U+015D", to |-> <<"U+015C">>], [ch |-> "U+015F", to |-> <<"U+015E">>],
     [ch |-> "U+0161", to |-> <<"U+0160">>], [ch |-> "U+0163", to |-> <<"U+0162">>], [ch |-> "U+0165", to |-> <<"U+0164">>],
     [ch |-> "U+0167", to |-> <<"U+0166">>], [ch |-> "U+0169", to |-> <<"U+0168">>], [ch |-> "U+016B", to |-> <<"U+016A">>],
     [ch |-> "U+016D", to |-> <<"U+016C">>], [ch |-> "U+016F", to |-> <<"U+016E">>], [ch |-> "U+0171", to |-> <<"U+0170">>],
     [ch |-> "U+0173", to |-> <<"U+0172">>], [ch |-> "U+0175", to |-> <<"U+0174">>], [ch |-> "U+0177", to |-> <<"U+0176">>],
     [ch |-> "U+017A", to |-> <<"U+0179">>], [ch |-> "U+017C", to |-> <<"U+017B">>], [ch |-> "U+017E", to |-> <<"U+017D">>],
     [ch |-> "U+017F", to |-> <<"S">>], [ch |-> "U+0180", to |-> <<"U+0243">>], [ch |-> "U+0183", to |-> <<"U+0182">>],
     [ch |-> "U+0185", to |-> <<"U+0184">>], [ch |-> "U+0188", to |-> <<"U+0187">>], [ch |-> "U+018C", to |-> <<"U+018B">>],
     [ch |-> "U+0192", to |-> <<"U+0191">>], [ch |-> "U+0195", to |-> <<"U+01F6">>], [ch |-> "U+0199", to |-> <<"U+0198">>],
     [ch |-> "U+019A", to |-> <<"U+023D">>], [ch |-> "U+019E", to |-> <<"U+0220">>], [ch |-> "U+01A1", to |-> <<"U+01A0">>],
     [ch |-> "U+01A3", to |-> <<"U+01A2">>], [ch |-> "U+01A5", to |-> <<"U+01A4">>], [ch |-> "U+01A8", to |-> <<"U+01A7">>],
     [ch |-> "U+01AD", to |-> <<"U+01AC">>], [ch |-> "U+01B0", to |-> <<"U+01AF">>], [ch |-> "U+01B4", to |-> <<"U+01B3">>],
     [ch |-> "U+01B6", to |-> <<"U+01B5">>], [ch |-> "U+01B9", to |-> <<"U+01B8">>], [ch |-> "U+01BD", to |-> <<"U+01BC">>],
     [ch |-> "U+01BF", to |-> <<"U+01F7">>], [ch |-> "U+01C5", to |-> <<"U+01C4">>], [ch |-> "U+01C6", to |-> <<"U+01C4">>],
     [ch |-> "U+01C8", to |-> <<"U+01C7">>], [ch |-> "U+01C9", to |-> <<"U+01C7">>], [ch |-> "U+01CB", to |-> <<"U+01CA">>],
     [ch |-> "U+01CC", to |-> <<"U+01CA">>], [ch |-> "U+01CE", to |-> <<"U+01CD">>], [ch |-> "U+01D0", to |-> <<"U+01CF">>],
     [ch |-> "U+01D2", to |-> <<"U+01D1">>], [ch |-> "U+01D4", to |-> <<"U+01D3">>], [ch |-> "U+01D6", to |-> <<"U+01D5">>],
     [ch |-> "U+01D8", to |-> <<"U+01D7">>], [ch |-> "U+01DA", to |-> <<"U+01D9">>], [ch |-> "U+01DC", to |-> <<"U+01DB">>],
     [ch |-> "U+01DD", to |-> <<"U+018E">>], [ch |-> "U+01DF", to |-> <<"U+01DE">>], [ch |-> "U+01E1", to |-> <<"U+01E0">>],
     [ch |-> "U+01E3", to |-> <<"U+01E2">>], [ch |-> "U+01E5", to |-> <<"U+01E4">>], [ch |-> "U+01E7", to |-> <<"U+01E6">>],
     [ch |-> "U+01E9", to |-> <<"U+01E8">>], [ch |-> "U+01EB", to |-> <<"U+01EA">>], [ch |-> "U+01ED", to |-> <<"U+01EC">>],
     [ch |-> "U+01EF", to |-> <<"U+01EE">>], [ch |-> "U+01F0", to |-> <<"J", "U+030C">>], [ch |-> "U+01F2", to |-> <<"U+01F1">>],
     [ch |-> "U+01F3", to |-> <<"U+01F1">>], [ch |-> "U+01F5", to |-> <<"U+01F4">>], [ch |-> "U+01F9", to |-> <<"U+01F8">>],
     [ch |-> "U+01FB", to |-> <<"U+01FA">>], [ch |-> "U+01FD", to |-> <<"U+01FC">>], [ch |-> "U+01FF", to |-> <<"U+01FE">>],
     [ch |-> "U+0201", to |-> <<"U+0200">>], [ch |-> "U+0203", to |-> <<"U+0202">>], [ch |-> "U+0205", to |-> <<"U+0204">>],
     [ch |-> "U+0207", to |-> <<"U+0206">>], [ch |-> "U+0209", to |-> <<"U+0208">>], [ch |-> "U+020B", to |-> <<"U+020A">>],
     [ch |-> "U+020D", to |-> <<"U+020C">>], [ch |-> "U+020F", to |-> <<"U+020E">>], [ch |-> "U+0211", to |-> <<"U+0210">>],
     [ch |-> "U+0213", to |-> <<"U+0212">>], [ch |-> "U+0215", to |-> <<"U+0214">>], [ch |-> "U+0217", to |-> <<"U+0216">>],
     [ch |-> "U+0219", to |-> <<"U+0218">>], [ch |-> "U+021B", to |-> <<"U+021A">>], [ch |-> "U+021D", to |-> <<"U+021C">>],
     [ch |-> "U+021F", to |-> <<"U+021E">>], [ch |-> "U+0223", to |-> <<"U+0222">>], [ch |-> "U+0225", to |-> <<"U+0224">>],
     [ch |-> "U+0227", to |-> <<"U+0226">>], [ch |-> "U+0229", to |-> <<"U+0228">>], [ch |-> "U+022B", to |-> <<"U+022A">>],
     [ch |-> "U+022D", to |-> <<"U+022C">>], [ch |-> "U+022F", to |-> <<"U+022E">>], [ch |-> "U+0231", to |-> <<"U+0230">>],
     [ch |-> "U+0233", to |-> <<"U+0232">>], [ch |-> "U+023C", to |-> <<"U+023B">>], [ch |-> "U+023F", to |-> <<"U+2C7E">>],
     [ch |-> "U+0240", to |-> <<"U+2C7F">>], [ch |-> "U+0242", to |-> <<"U+0241">>], [ch |-> "U+0247", to |-> <<"U+0246">>],
     [ch |-> "U+0249", to |-> <<"U+0248">>], [ch |-> "U+024B", to |-> <<"U+024A">>], [ch |-> "U+024D", to |-> <<"U+024C">>],
     [ch |-> "U+024F", to |-> <<"U+024E">>], [ch |-> "U+0250", to |-> <<"U+2C6F">>], [ch |-> "U+0251", to |-> <<"U+2C6D">>],
     [ch |-> "U+0252", to |-> <<"U+2C70">>], [ch |-> "U+0253", to |-> <<"U+0181">>], [ch |-> "U+0254", to |-> <<"U+0186">>],
     [ch |-> "U+0256", to |-> <<"U+0189">>], [ch |-> "U+0257", to |-> <<"U+018A">>], [ch |-> "U+0259", to |-> <<"U+018F">>],
     [ch |-> "U+025B", to |-> <<"U+0190">>], [ch |-> "U+025C", to |-> <<"U+A7AB">>], [ch |-> "U+0260", to |-> <<"U+0193">>],
     [ch |-> "U+0261", to |-> <<"U+A7AC">>], [ch |-> "U+0263", to |-> <<"U+0194">>], [ch |-> "U+0265", to |-> <<"U+A78D">>],
     [ch |-> "U+0266", to |-> <<"U+A7AA">>], [ch |-> "U+0268", to |-> <<"U+0197">>], [ch |-> "U+0269", to |-> <<"U+0196">>],
     [ch |-> "U+026A", to |-> <<"U+A7AE">>], [ch |-> "U+026B", to |-> <<"U+2C62">>], [ch |-> "U+026C", to |-> <<"U+A7AD">>],
     [ch |-> "U+026F", to |-> <<"U+019C">>], [ch |-> "U+0271", to |-> <<"U+2C6E">>], [ch |-> "U+0272", to |-> <<"U+019D">>],
     [ch |-> "U+0275", to |-> <<"U+019F">>], [ch |-> "U+027D", to |-> <<"U+2C64">>], [ch |-> "U+0280", to |-> <<"U+01A6">>],
     [ch |-> "U+0282", to |-> <<"U+A7C5">>], [ch |-> "U+0283", to |-> <<"U+01A9">>], [ch |-> "U+0287", to |-> <<"U+A7B1">>],
     [ch |-> "U+0288", to |-> <<"U+01AE">>], [ch |-> "U+0289", to |-> <<"U+0244">>], [ch |-> "U+028A", to |-> <<"U+01B1">>],
     [ch |-> "U+028B", to |-> <<"U+01B2">>], [ch |-> "U+028C", to |-> <<"U+0245">>], [ch |-> "U+0292", to |-> <<"U+01B7">>],
     [ch |-> "U+029D", to |-> <<"U+A7B2">>], [ch |-> "U+029E", to |-> <<"U+A7B0">>], [ch |-> "U+0345", to |-> <<"U+0399">>],
     [ch |-> "U+0371", to |-> <<"U+0370">>], [ch |-> "U+0373", to |-> <<"U+0372">>], [ch |-> "U+0377", to |-> <<"U+0376">>],
     [ch |-> "U+037B", to |-> <<"U+03FD">>], [ch |-> "U+037C", to |-> <<"U+03FE">>], [ch |-> "U+037D", to |-> <<"U+03FF">>],
     [ch |-> "U+0390", to |-> <<"U+0399", "U+0308", "U+0301">>], [ch |-> "U+03AC", to |-> <<"U+0386">>], [ch |-> "U+03AD", to |-> <<"U+0388">>],
     [ch |-> "U+03AE", to |-> <<"U+0389">>], [ch |-> "U+03AF", to |-> <<"U+038A">>], [ch |-> "U+03B0", to |-> <<"U+03A5", "U+0308", "U+0301">>],
     [ch |-> "U+03B1", to |-> <<"U+0391">>], [ch |-> "U+03B2", to |-> <<"U+0392">>], [ch |-> "U+03B3", to |-> <<"U+0393">>],
     [ch |-> "U+03B4", to |-> <<"U+0394">>], [ch |-> "U+03B5", to |-> <<"U+0395">>], [ch |-> "U+03B6", to |-> <<"U+0396">>],
     [ch |-> "U+03B7", to |-> <<"U+0397">>], [ch |-> "U+03B8", to |-> <<"U+0398">>], [ch |-> "U+03B9", to |-> <<"U+0399">>],
     [ch |-> "U+03BA", to |-> <<"U+039A">>], [ch |-> "U+03BB", to |-> <<"U+039B">>], [ch |-> "U+03BC", to |-> <<"U+039C">>],
     [ch |-> "U+03BD", to |-> <<"U+039D">>], [ch |-> "U+03BE", to |-> <<"U+039E">>], [ch |-> "U+03BF", to |-> <<"U+039F">>],
     [ch |-> "U+03C0", to |-> <<"U+03A0">>], [ch |-> "U+03C1", to |-> <<"U+03A1">>], [ch |-> "U+03C2", to |-> <<"U+03A3">>],
     [ch |-> "U+03C3", to |-> <<"U+03A3">>], [ch |-> "U+03C4", to |-> <<"U+03A4">>], [ch |-> "U+03C5", to |-> <<"U+03A5">>],
     [ch |-> "U+03C6", to |-> <<"U+03A6">>], [ch |-> "U+03C7", to |-> <<"U+03A7">>], [ch |-> "U+03C8", to |-> <<"U+03A8">>],
     [ch |-> "U+03C9", to |-> <<"U+03A9">>], [ch |-> "U+03CA", to |-> <<"U+03AA">>], [ch |-> "U+03CB", to |-> <<"U+03AB">>],
     [ch |-> "U+03CC", to |-> <<"U+038C">>], [ch |-> "U+03CD", to |-> <<"U+038E">>], [ch |-> "U+03CE", to |-> <<"U+038F">>],
     [ch |-> "U+03D0", to |-> <<"U+0392">>], [ch |-> "U+03D1", to |-> <<"U+0398">>], [ch |-> "U+03D5", to |-> <<"U+03A6">>],
     [ch |-> "U+03D6", to |-> <<"U+03A0">>], [ch |-> "U+03D7", to |-> <<"U+03CF">>], [ch |-> "U+03D9", to |-> <<"U+03D8">>],
     [ch |-> "U+03DB", to |-> <<"U+03DA">>], [ch |-> "U+03DD", to |-> <<"U+03DC">>], [ch |-> "U+03DF", to |-> <<"U+03DE">>],
     [ch |-> "U+03E1", to |-> <<"U+03E0">>], [ch |-> "U+03E3", to |-> <<"U+03E2">>], [ch |-> "U+03E5", to |-> <<"U+03E4">>],
     [ch |-> "U+03E7", to |-> <<"U+03E6">>], [ch |-> "U+03E9", to |-> <<"U+03E8">>], [ch |-> "U+03EB", to |-> <<"U+03EA">>],
     [ch |-> "U+03ED", to |-> <<"U+03EC">>], [ch |-> "U+03EF", to |-> <<"U+03EE">>], [ch |-> "U+03F0", to |-> <<"U+039A">>],
     [ch |-> "U+03F1", to |-> <<"U+03A1">>], [ch |-> "U+03F2", to |-> <<"U+03F9">>], [ch |-> "U+03F3", to |-> <<"U+037F">>],
     [ch |-> "U+03F5", to |-> <<"U+0395">>], [ch |-> "U+03F8", to |-> <<"U+03F7">>], [ch |-> "U+03FB", to |-> <<"U+03FA">>],
     [ch |-> "U+0430", to |-> <<"U+0410">>], [ch |-> "U+0431", to |-> <<"U+0411">>], [ch |-> "U+0432", to |-> <<"U+0412">>],
     [ch |-> "U+0433", to |-> <<"U+0413">>], [ch |-> "U+0434", to |-> <<"U+0414">>], [ch |-> "U+0435", to |-> <<"U+0415">>],
     [ch |-> "U+0436", to |-> <<"U+0416">>], [ch |-> "U+0437", to |-> <<"U+0417">>], [ch |-> "U+0438", to |-> <<"U+0418">>],
     [ch |-> "U+0439", to |-> <<"U+0419">>], [ch |-> "U+043A", to |-> <<"U+041A">>], [ch |-> "U+043B", to |-> <<"U+041B">>],
     [ch |-> "U+043C", to |-> <<"U+041C">>], [ch |-> "U+043D", to |-> <<"U+041D">>], [ch |-> "U+043E", to |-> <<"U+041E">>],
     [ch |-> "U+043F", to |-> <<"U+041F">>], [ch |-> "U+0440", to |-> <<"U+0420">>], [ch |-> "U+0441", to |-> <<"U+0421">>],
     [ch |-> "U+0442", to |-> <<"U+0422">>], [ch |-> "U+0443", to |-> <<"U+0423">>], [ch |-> "U+0444", to |-> <<"U+0424">>],
     [ch |-> "U+0445", to |-> <<"U+0425">>], [ch |-> "U+0446", to |-> <<"U+0426">>], [ch |-> "U+0447", to |-> <<"U+0427">>],
     [ch |-> "U+0448", to |-> <<"U+0428">>], [ch |-> "U+0449", to |-> <<"U+0429">>], [ch |-> "U+044A", to |-> <<"U+042A">>],
     [ch |-> "U+044B", to |-> <<"U+042B">>], [ch |-> "U+044C", to |-> <<"U+042C">>], [ch |-> "U+044D", to |-> <<"U+042D">>],
     [ch |-> "U+044E", to |-> <<"U+042E">>], [ch |-> "U+044F", to |-> <<"U+042F">>], [ch |-> "U+0450", to |-> <<"U+0400">>],
     [ch |-> "U+0451", to |-> <<"U+0401">>], [ch |-> "U+0452", to |-> <<"U+0402">>], [ch |-> "U+0453", to |-> <<"U+0403">>],
     [ch |-> "U+0454", to |-> <<"U+0404">>], [ch |-> "U+0455", to |-> <<"U+0405">>], [ch |-> "U+0456", to |-> <<"U+0406">>],
     [ch |-> "U+0457", to |-> <<"U+0407">>], [ch |-> "U+0458", to |-> <<"U+0408">>], [ch |-> "U+0459", to |-> <<"U+0409">>],
     [ch |-> "U+045A", to |-> <<"U+040A">>], [ch |-> "U+045B", to |-> <<"U+040B">>], [ch |-> "U+045C", to |-> <<"U+040C">>],
     [ch |-> "U+045D", to |-> <<"U+040D">>], [ch |-> "U+045E", to |-> <<"U+040E">>], [ch |-> "U+045F", to |-> <<"U+040F">>],
     [ch |-> "U+0461", to |-> <<"U+0460">>], [ch |-> "U+0463", to |-> <<"U+0462">>], [ch |-> "U+0465", to |-> <<"U+0464">>],
     [ch |-> "U+0467", to |-> <<"U+0466">>], [ch |-> "U+0469", to |-> <<"U+0468">>], [ch |-> "U+046B", to |-> <<"U+046A">>],
     [ch |-> "U+046D", to |-> <<"U+046C">>], [ch |-> "U+046F", to |-> <<"U+046E">>], [ch |-> "U+0471", to |-> <<"U+0470">>],
     [ch |-> "U+0473", to |-> <<"U+0472">>], [ch |-> "U+0475", to |-> <<"U+0474">>], [ch |-> "U+0477", to |-> <<"U+0476">>],
     [ch |-> "U+0479", to |-> <<"U+0478">>], [ch |-> "U+047B", to |-> <<"U+047A">>], [ch |-> "U+047D", to |-> <<"U+047C">>],
     [ch |-> "U+047F", to |-> <<"U+047E">>], [ch |-> "U+0481", to |-> <<"U+0480">>], [ch |-> "U+048B", to |-> <<"U+048A">>],
     [ch |-> "U+048D", to |-> <<"U+048C">>], [ch |-> "U+048F", to |-> <<"U+048E">>], [ch |-> "U+0491", to |-> <<"U+0490">>],
     [ch |-> "U+0493", to |-> <<"U+0492">>], [ch |-> "U+0495", to |-> <<"U+0494">>], [ch |-> "U+0497", to |-> <<"U+0496">>],
     [ch |-> "U+0499", to |-> <<"U+0498">>], [ch |-> "U+049B", to |-> <<"U+049A">>], [ch |-> "U+049D", to |-> <<"U+049C">>],
     [ch |-> "U+049F", to |-> <<"U+049E">>], [ch |-> "U+04A1", to |-> <<"U+04A0">>], [ch |-> "U+04A3", to |-> <<"U+04A2">>],
     [ch |-> "U+04A5", to |-> <<"U+04A4">>], [ch |-> "U+04A7", to |-> <<"U+04A6">>], [ch |-> "U+04A9", to |-> <<"U+04A8">>],
     [ch |-> "U+04AB", to |-> <<"U+04AA">>], [ch |-> "U+04AD", to |-> <<"U+04AC">>], [ch |-> "U+04AF", to |-> <<"U+04AE">>],
     [ch |-> "U+04B1", to |-> <<"U+04B0">>], [ch |-> "U+04B3", to |-> <<"U+04B2">>], [ch |-> "U+04B5", to |-> <<"U+04B4">>],
     [ch |-> "U+04B7", to |-> <<"U+04B6">>], [ch |-> "U+04B9", to |-> <<"U+04B8">>], [ch |-> "U+04BB", to |-> <<"U+04BA">>],
     [ch |-> "U+04BD", to |-> <<"U+04BC">>], [ch |-> "U+04BF", to |-> <<"U+04BE">>], [ch |-> "U+04C2", to |-> <<"U+04C1">>],
     [ch |-> "U+04C4", to |-> <<"U+04C3">>], [ch |-> "U+04C6", to |-> <<"U+04C5">>], [ch |-> "U+04C8", to |-> <<"U+04C7">>],
     [ch |-> "U+04CA", to |-> <<"U+04C9">>], [ch |-> "U+04CC", to |-> <<"U+04CB">>], [ch |-> "U+04CE", to |-> <<"U+04CD">>],
     [ch |-> "U+04CF", to |-> <<"U+04C0">>], [ch |-> "U+04D1", to |-> <<"U+04D0">>], [ch |-> "U+04D3", to |-> <<"U+04D2">>],
     [ch |-> "U+04D5", to |-> <<"U+04D4">>], [ch |-> "U+04D7", to |-> <<"U+04D6">>], [ch |-> "U+04D9", to |-> <<"U+04D8">>],
     [ch |-> "U+04DB", to |-> <<"U+04DA">>], [ch |-> "U+04DD", to |-> <<"U+04DC">>], [ch |-> "U+04DF", to |-> <<"U+04DE">>],
     [ch |-> "U+04E1", to |-> <<"U+04E0">>], [ch |-> "U+04E3", to |-> <<"U+04E2">>], [ch |-> "U+04E5", to |-> <<"U+04E4">>],
     [ch |-> "U+04E7", to |-> <<"U+04E6">>], [ch |-> "U+04E9", to |-> <<"U+04E8">>], [ch |-> "U+04EB", to |-> <<"U+04EA">>],
     [ch |-> "U+04ED", to |-> <<"U+04EC">>], [ch |-> "U+04EF", to |-> <<"U+04EE">>], [ch |-> "U+04F1", to |-> <<"U+04F0">>],
     [ch |-> "U+04F3", to |-> <<"U+04F2">>], [ch |-> "U+04F5", to |-> <<"U+04F4">>], [ch |-> "U+04F7", to |-> <<"U+04F6">>],
     [ch |-> "U+04F9", to |-> <<"U+04F8">>], [ch |-> "U+04FB", to |-> <<"U+04FA">>], [ch |-> "U+04FD", to |-> <<"U+04FC">>],
     [ch |-> "U+04FF", to |-> <<"U+04FE">>], [ch |-> "U+0501", to |-> <<"U+0500">>], [ch |-> "U+0503", to |-> <<"U+0502">>],
     [ch |-> "U+0505", to |-> <<"U+0504">>], [ch |-> "U+0507", to |-> <<"U+0506">>], [ch |-> "U+0509", to |-> <<"U+0508">>],
     [ch |-> "U+050B", to |-> <<"U+050A">>], [ch |-> "U+050D", to |-> <<"U+050C">>], [ch |-> "U+050F", to |-> <<"U+050E">>],
     [ch |-> "U+0511", to |-> <<"U+0510">>], [ch |-> "U+0513", to |-> <<"U+0512">>], [ch |-> "U+0515", to |-> <<"U+0514">>],
     [ch |-> "U+0517", to |-> <<"U+0516">>], [ch |-> "U+0519", to |-> <<"U+0518">>], [ch |-> "U+051B", to |-> <<"U+051A">>],
     [ch |-> "U+051D", to |-> <<"U+051C">>], [ch |-> "U+051F", to |-> <<"U+051E">>], [ch |-> "U+0521", to |-> <<"U+0520">>],
     [ch |-> "U+0523", to |-> <<"U+0522">>], [ch |-> "U+0525", to |-> <<"U+0524">>], [ch |-> "U+0527", to |-> <<"U+0526">>],
     [ch |-> "U+0529", to |-> <<"U+0528">>], [ch |-> "U+052B", to |-> <<"U+052A">>], [ch |-> "U+052D", to |-> <<"U+052C">>],
     [ch |-> "U+052F", to |-> <<"U+052E">>], [ch |-> "U+0561", to |-> <<"U+0531">>], [ch |-> "U+0562", to |-> <<"U+0532">>],
     [ch |-> "U+0563", to |-> <<"U+0533">>], [ch |-> "U+0564", to |-> <<"U+0534">>], [ch |-> "U+0565", to |-> <<"U+0535">>],
     [ch |-> "U+0566", to |-> <<"U+0536">>], [ch |-> "U+0567", to |-> <<"U+0537">>], [ch |-> "U+0568", to |-> <<"U+0538">>],
     [ch |-> "U+0569", to |-> <<"U+0539">>], [ch |-> "U+056A", to |-> <<"U+053A">>], [ch |-> "U+056B", to |-> <<"U+053B">>],
     [ch |-> "U+056C", to |-> <<"U+053C">>], [ch |-> "U+056D", to |-> <<"U+053D">>], [ch |-> "U+056E", to |-> <<"U+053E">>],
     [ch |-> "U+056F", to |-> <<"U+053F">>], [ch |-> "U+0570", to |-> <<"U+0540">>], [ch |-> "U+0571", to |-> <<"U+0541">>],
     [ch |-> "U+0572", to |-> <<"U+0542">>], [ch |-> "U+0573", to |-> <<"U+0543">>], [ch |-> "U+0574", to |-> <<"U+0544">>],
     [ch |-> "U+0575", to |-> <<"U+0545">>], [ch |-> "U+0576", to |-> <<"U+0546">>], [ch |-> "U+0577", to |-> <<"U+0547">>],
     [ch |-> "U+0578", to |-> <<"U+0548">>], [ch |-> "U+0579", to |-> <<"U+0549">>], [ch |-> "U+057A", to |-> <<"U+054A">>],
     [ch |-> "U+057B", to |-> <<"U+054B">>], [ch |-> "U+057C", to |-> <<"U+054C">>], [ch |-> "U+057D", to |-> <<"U+054D">>],
     [ch |-> "U+057E", to |-> <<"U+054E">>], [ch |-> "U+057F", to |-> <<"U+054F">>], [ch |-> "U+0580", to |-> <<"U+0550">>],
     [ch |-> "U+0581", to |-> <<"U+0551">>], [ch |-> "U+0582", to |-> <<"U+0552">>], [ch |-> "U+0583", to |-> <<"U+0553">>],
     [ch |-> "U+0584", to |-> <<"U+0554">>], [ch |-> "U+0585", to |-> <<"U+0555">>], [ch |-> "U+0586", to |-> <<"U+0556">>],
     [ch |-> "U+0587", to |-> <<"U+0535", "U+0552">>], [ch |-> "U+10D0", to |-> <<"U+1C90">>], [ch |-> "U+10D1", to |-> <<"U+1C91">>],
     [ch |-> "U+10D2", to |-> <<"U+1C92">>], [ch |-> "U+10D3", to |-> <<"U+1C93">>], [ch |-> "U+10D4", to |-> <<"U+1C94">>],
     [ch |-> "U+10D5", to |-> <<"U+1C95">>], [ch |-> "U+10D6", to |-> <<"U+1C96">>], [ch |-> "U+10D7", to |-> <<"U+1C97">>],
     [ch |-> "U+10D8", to |-> <<"U+1C98">>], [ch |-> "U+10D9", to |-> <<"U+1C99">>], [ch |-> "U+10DA", to |-> <<"U+1C9A">>],
     [ch |-> "U+10DB", to |-> <<"U+1C9B">>], [ch |-> "U+10DC", to |-> <<"U+1C9C">>], [ch |-> "U+10DD", to |-> <<"U+1C9D">>],
     [ch |-> "U+10DE", to |-> <<"U+1C9E">>], [ch |-> "U+10DF", to |-> <<"U+1C9F">>], [ch |-> "U+10E0", to |-> <<"U+1CA0">>],
     [ch |-> "U+10E1", to |-> <<"U+1CA1">>], [ch |-> "U+10E2", to |-> <<"U+1CA2">>], [ch |-> "U+10E3", to |-> <<"U+1CA3">>],
     [ch |-> "U+10E4", to |-> <<"U+1CA4">>], [ch |-> "U+10E5", to |-> <<"U+1CA5">>], [ch |-> "U+10E6", to |-> <<"U+1CA6">>],
     [ch |-> "U+10E7", to |-> <<"U+1CA7">>], [ch |-> "U+10E8", to |-> <<"U+1CA8">>], [ch |-> "U+10E9", to |-> <<"U+1CA9">>],
     [ch |-> "U+10EA", to |-> <<"U+1CAA">>], [ch |-> "U+10EB", to |-> <<"U+1CAB">>], [ch |-> "U+10EC", to |-> <<"U+1CAC">>],
     [ch |-> "U+10ED", to |-> <<"U+1CAD">>], [ch |-> "U+10EE", to |-> <<"U+1CAE">>], [ch |-> "U+10EF", to |-> <<"U+1CAF">>],
     [ch |-> "U+10F0", to |-> <<"U+1CB0">>], [ch |-> "U+10F1", to |-> <<"U+1CB1">>], [ch |-> "U+10F2", to |-> <<"U+1CB2">>],
     [ch |-> "U+10F3", to |-> <<"U+1CB3">>], [ch |-> "U+10F4", to |-> <<"U+1CB4">>], [ch |-> "U+10F5", to |-> <<"U+1CB5">>],
     [ch |-> "U+10F6", to |-> <<"U+1CB6">>], [ch |-> "U+10F7", to |-> <<"U+1CB7">>], [ch |-> "U+10F8", to |-> <<"U+1CB8">>],
     [ch |-> "U+10F9", to |-> <<"U+1CB9">>], [ch |-> "U+10FA", to |-> <<"U+1CBA">>], [ch |-> "U+10FD", to |-> <<"U+1CBD">>],
     [ch |-> "U+10FE", to |-> <<"U+1CBE">>], [ch |-> "U+10FF", to |-> <<"U+1CBF">>], [ch |-> "U+13F8", to |-> <<"U+13F0">>],
     [ch |-> "U+13F9", to |-> <<"U+13F1">>], [ch |-> "U+13FA", to |-> <<"U+13F2">>], [ch |-> "U+13FB", to |-> <<"U+13F3">>],
     [ch |-> "U+13FC", to |-> <<"U+13F4">>], [ch |-> "U+13FD", to |-> <<"U+13F5">>], [ch |-> "U+1C80", to |-> <<"U+0412">>],
     [ch |-> "U+1C81", to |-> <<"U+0414">>], [ch |-> "U+1C82", to |-> <<"U+041E">>], [ch |-> "U+1C83", to |-> <<"U+0421">>],
     [ch |-> "U+1C84", to |-> <<"U+0422">>], [ch |-> "U+1C85", to |-> <<"U+0422">>], [ch |-> "U+1C86", to |-> <<"U+042A">>],
     [ch |-> "U+1C87", to |-> <<"U+0462">>], [ch |-> "U+1C88", to |-> <<"U+A64A">>], [ch |-> "U+1D79", to |-> <<"U+A77D">>],
     [ch |-> "U+1D7D", to |-> <<"U+2C63">>], [ch |-> "U+1D8E", to |-> <<"U+A7C6">>], [ch |-> "U+1E01", to |-> <<"U+1E00">>],
     [ch |-> "U+1E03", to |-> <<"U+1E02">>], [ch |-> "U+1E05", to |-> <<"U+1E04">>], [ch |-> "U+1E07", to |-> <<"U+1E06">>],
     [ch |-> "U+1E09", to |-> <<"U+1E08">>], [ch |-> "U+1E0B", to |-> <<"U+1E0A">>], [ch |-> "U+1E0D", to |-> <<"U+1E0C">>],
     [ch |-> "U+1E0F", to |-> <<"U+1E0E">>], [ch |-> "U+1E11", to |-> <<"U+1E10">>], [ch |-> "U+1E13", to |-> <<"U+1E12">>],
     [ch |-> "U+1E15", to |-> <<"U+1E14">>], [ch |-> "U+1E17", to |-> <<"U+1E16">>], [ch |-> "U+1E19", to |-> <<"U+1E18">>],
     [ch |-> "U+1E1B", to |-> <<"U+1E1A">>], [ch |-> "U+1E1D", to |-> <<"U+1E1C">>], [ch |-> "U+1E1F", to |-> <<"U+1E1E">>],
     [ch |-> "U+1E21", to |-> <<"U+1E20">>], [ch |-> "U+1E23", to |-> <<"U+1E22">>], [ch |-> "U+1E25", to |-> <<"U+1E24">>],
     [ch |-> "U+1E27", to |-> <<"U+1E26">>], [ch |-> "U+1E29", to |-> <<"U+1E28">>], [ch |-> "U+1E2B", to |-> <<"U+1E2A">>],
     [ch |-> "U+1E2D", to |-> <<"U+1E2C">>], [ch |-> "U+1E2F", to |-> <<"U+1E2E">>], [ch |-> "U+1E31", to |-> <<"U+1E30">>],
     [ch |-> "U+1E33", to |-> <<"U+1E32">>], [ch |-> "U+1E35", to |-> <<"U+1E34">>], [ch |-> "U+1E37", to |-> <<"U+1E36">>],
     [ch |-> "U+1E39", to |-> <<"U+1E38">>], [ch |-> "U+1E3B", to |-> <<"U+1E3A">>], [ch |-> "U+1E3D", to |-> <<"U+1E3C">>],
     [ch |-> "U+1E3F", to |-> <<"U+1E3E">>], [ch |-> "U+1E41", to |-> <<"U+1E40">>], [ch |-> "U+1E43", to |-> <<"U+1E42">>],
     [ch |-> "U+1E45", to |-> <<"U+1E44">>], [ch |-> "U+1E47", to |-> <<"U+1E46">>], [ch |-> "U+1E49", to |-> <<"U+1E48">>],
     [ch |-> "U+1E4B", to |-> <<"U+1E4A">>], [ch |-> "U+1E4D", to |-> <<"U+1E4C">>], [ch |-> "U+1E4F", to |-> <<"U+1E4E">>],
     [ch |-> "U+1E51", to |-> <<"U+1E50">>], [ch |-> "U+1E53", to |-> <<"U+1E52">>], [ch |-> "U+1E55", to |-> <<"U+1E54">>],
     [ch |-> "U+1E57", to |-> <<"U+1E56">>], [ch |-> "U+1E59", to |-> <<"U+1E58">>], [ch |-> "U+1E5B", to |-> <<"U+1E5A">>],
     [ch |-> "U+1E5D", to |-> <<"U+1E5C">>], [ch |-> "U+1E5F", to |-> <<"U+1E5E">>], [ch |-> "U+1E61", to |-> <<"U+1E60">>],
     [ch |-> "U+1E63", to |-> <<"U+1E62">>], [ch |-> "U+1E65", to |-> <<"U+1E64">>], [ch |-> "U+1E67", to |-> <<"U+1E66">>],
     [ch |-> "U+1E69", to |-> <<"U+1E68">>], [ch |-> "U+1E6B", to |-> <<"U+1E6A">>], [ch |-> "U+1E6D", to |-> <<"U+1E6C">>],
     [ch |-> "U+1E6F", to |-> <<"U+1E6E">>], [ch |-> "U+1E71", to |-> <<"U+1E70">>], [ch |-> "U+1E73", to |-> <<"U+1E72">>],
     [ch |-> "U+1E75", to |-> <<"U+1E74">>], [ch |-> "U+1E77", to |-> <<"U+1E76">>], [ch |-> "U+1E79", to |-> <<"U+1E78">>],
     [ch |-> "U+1E7B", to |-> <<"U+1E7A">>], [ch |-> "U+1E7D", to |-> <<"U+1E7C">>], [ch |-> "U+1E7F", to |-> <<"U+1E7E">>],
     [ch |-> "U+1E81", to |-> <<"U+1E80">>], [ch |-> "U+1E83", to |-> <<"U+1E82">>], [ch |-> "U+1E85", to |-> <<"U+1E84">>],
     [ch |-> "U+1E87", to |-> <<"U+1E86">>], [ch |-> "U+1E89", to |-> <<"U+1E88">>], [ch |-> "U+1E8B", to |-> <<"U+1E8A">>],
     [ch |-> "U+1E8D", to |-> <<"U+1E8C">>], [ch |-> "U+1E8F", to |-> <<"U+1E8E">>], [ch |-> "U+1E91", to |-> <<"U+1E90">>],
     [ch |-> "U+1E93", to |-> <<"U+1E92">>], [ch |-> "U+1E95", to |-> <<"U+1E94">>], [ch |-> "U+1E96", to |-> <<"H", "U+0331">>],
     [ch |-> "U+1E97", to |-> <<"T", "U+0308">>], [ch |-> "U+1E98", to |-> <<"W", "U+030A">>], [ch |-> "U+1E99", to |-> <<"Y", "U+030A">>],
     [ch |-> "U+1E9A", to |-> <<"A", "U+02BE">>], [ch |-> "U+1E9B", to |-> <<"U+1E60">>], [ch |-> "U+1EA1", to |-> <<"U+1EA0">>],
     [ch |-> "U+1EA3", to |-> <<"U+1EA2">>], [ch |-> "U+1EA5", to |-> <<"U+1EA4">>], [ch |-> "U+1EA7", to |-> <<"U+1EA6">>],
     [ch |-> "U+1EA9", to |-> <<"U+1EA8">>], [ch |-> "U+1EAB", to |-> <<"U+1EAA">>], [ch |-> "U+1EAD", to |-> <<"U+1EAC">>],
     [ch |-> "U+1EAF", to |-> <<"U+1EAE">>], [ch |-> "U+1EB1", to |-> <<"U+1EB0">>], [ch |-> "U+1EB3", to |-> <<"U+1EB2">>],
     [ch |-> "U+1EB5", to |-> <<"U+1EB4">>], [ch |-> "U+1EB7", to |-> <<"U+1EB6">>], [ch |-> "U+1EB9", to |-> <<"U+1EB8">>],
     [ch |-> "U+1EBB", to |-> <<"U+1EBA">>], [ch |-> "U+1EBD", to |-> <<"U+1EBC">>], [ch |-> "U+1EBF", to |-> <<"U+1EBE">>],
     [ch |-> "U+1EC1", to |-> <<"U+1EC0">>], [ch |-> "U+1EC3", to |-> <<"U+1EC2">>], [ch |-> "U+1EC5", to |-> <<"U+1EC4">>],
     [ch |-> "U+1EC7", to |-> <<"U+1EC6">>], [ch |-> "U+1EC9", to |-> <<"U+1EC8">>], [ch |-> "U+1ECB", to |-> <<"U+1ECA">>],
     [ch |-> "U+1ECD", to |-> <<"U+1ECC">>], [ch |-> "U+1ECF", to |-> <<"U+1ECE">>], [ch |-> "U+1ED1", to |-> <<"U+1ED0">>],
     [ch |-> "U+1ED3", to |-> <<"U+1ED2">>], [ch |-> "U+1ED5", to |-> <<"U+1ED4">>], [ch |-> "U+1ED7", to |-> <<"U+1ED6">>],
     [ch |-> "U+1ED9", to |-> <<"U+1ED8">>], [ch |-> "U+1EDB", to |-> <<"U+1EDA">>], [ch |-> "U+1EDD", to |-> <<"U+1EDC">>],
     [ch |-> "U+1EDF", to |-> <<"U+1EDE">>], [ch |-> "U+1EE1", to |-> <<"U+1EE0">>], [ch |-> "U+1EE3", to |-> <<"U+1EE2">>],
     [ch |-> "U+1EE5", to |-> <<"U+1EE4">>], [ch |-> "U+1EE7", to |-> <<"U+1EE6">>], [ch |-> "U+1EE9", to |-> <<"U+1EE8">>],
     [ch |-> "U+1EEB", to |-> <<"U+1EEA">>], [ch |-> "U+1EED", to |-> <<"U+1EEC">>], [ch |-> "U+1EEF", to |-> <<"U+1EEE">>],
     [ch |-> "U+1EF1", to |-> <<"U+1EF0">>], [ch |-> "U+1EF3", to |-> <<"U+1EF2">>], [ch |-> "U+1EF5", to |-> <<"U+1EF4">>],
     [ch |-> "U+1EF7", to |-> <<"U+1EF6">>], [ch |-> "U+1EF9", to |-> <<"U+1EF8">>], [ch |-> "U+1EFB", to |-> <<"U+1EFA">>],
     [ch |-> "U+1EFD", to |-> <<"U+1EFC">>], [ch |-> "U+1EFF", to |-> <<"U+1EFE">>], [ch |-> "U+1F00", to |-> <<"U+1F08">>],
     [ch |-> "U+1F01", to |-> <<"U+1F09">>], [ch |-> "U+1F02", to |-> <<"U+1F0A">>], [ch |-> "U+1F03", to |-> <<"U+1F0B">>],
     [ch |-> "U+1F04", to |-> <<"U+1F0C">>], [ch |-> "U+1F05", to |-> <<"U+1F0D">>], [ch |-> "U+1F06", to |-> <<"U+1F0E">>],
     [ch |-> "U+1F07", to |-> <<"U+1F0F">>], [ch |-> "U+1F10", to |-> <<"U+1F18">>], [ch |-> "U+1F11", to |-> <<"U+1F19">>],
     [ch |-> "U+1F12", to |-> <<"U+1F1A">>], [ch |-> "U+1F13", to |-> <<"U+1F1B">>], [ch |-> "U+1F14", to |-> <<"U+1F1C">>],
     [ch |-> "U+1F15", to |-> <<"U+1F1D">>], [ch |-> "U+1F20", to |-> <<"U+1F28">>], [ch |-> "U+1F21", to |-> <<"U+1F29">>],
     [ch |-> "U+1F22", to |-> <<"U+1F2A">>], [ch |-> "U+1F23", to |-> <<"U+1F2B">>], [ch |-> "U+1F24", to |-> <<"U+1F2C">>],
     [ch |-> "U+1F25", to |-> <<"U+1F2D">>], [ch |-> "U+1F26", to |-> <<"U+1F2E">>], [ch |-> "U+1F27", to |-> <<"U+1F2F">>],
     [ch |-> "U+1F30", to |-> <<"U+1F38">>], [ch |-> "U+1F31", to |-> <<"U+1F39">>], [ch |-> "U+1F32", to |-> <<"U+1F3A">>],
     [ch |-> "U+1F33", to |-> <<"U+1F3B">>], [ch |-> "U+1F34", to |-> <<"U+1F3C">>], [ch |-> "U+1F35", to |-> <<"U+1F3D">>],
     [ch |-> "U+1F36", to |-> <<"U+1F3E">>], [ch |-> "U+1F37", to |-> <<"U+1F3F">>], [ch |-> "U+1F40", to |-> <<"U+1F48">>],
     [ch |-> "U+1F41", to |-> <<"U+1F49">>], [ch |-> "U+1F42", to |-> <<"U+1F4A">>], [ch |-> "U+1F43", to |-> <<"U+1F4B">>],
     [ch |-> "U+1F44", to |-> <<"U+1F4C">>], [ch |-> "U+1F45", to |-> <<"U+1F4D">>], [ch |-> "U+1F50", to |-> <<"U+03A5", "U+0313">>],
     [ch |-> "U+1F51", to |-> <<"U+1F59">>], [ch |-> "U+1F52", to |-> <<"U+03A5", "U+0313", "U+0300">>], [ch |-> "U+1F53", to |-> <<"U+1F5B">>],
     [ch |-> "U+1F54", to |-> <<"U+03A5", "U+0313", "U+0301">>], [ch |-> "U+1F55", to |-> <<"U+1F5D">>], [ch |-> "U+1F56", to |-> <<"U+03A5", "U+0313", "U+0342">>],
     [ch |-> "U+1F57", to |-> <<"U+1F5F">>], [ch |-> "U+1F60", to |-> <<"U+1F68">>], [ch |-> "U+1F61", to |-> <<"U+1F69">>],
     [ch |-> "U+1F62", to |-> <<"U+1F6A">>], [ch |-> "U+1F63", to |-> <<"U+1F6B">>], [ch |-> "U+1F64", to |-> <<"U+1F6C">>],
     [ch |-> "U+1F65", to |-> <<"U+1F6D">>], [ch |-> "U+1F66", to |-> <<"U+1F6E">>], [ch |-> "U+1F67", to |-> <<"U+1F6F">>],
     [ch |-> "U+1F70", to |-> <<"U+1FBA">>], [ch |-> "U+1F71", to |-> <<"U+1FBB">>], [ch |-> "U+1F72", to |-> <<"U+1FC8">>],
     [ch |-> "U+1F73", to |-> <<"U+1FC9">>], [ch |-> "U+1F74", to |-> <<"U+1FCA">>], [ch |-> "U+1F75", to |-> <<"U+1FCB">>],
     [ch |-> "U+1F76", to |-> <<"U+1FDA">>], [ch |-> "U+1F77", to |-> <<"U+1FDB">>], [ch |-> "U+1F78", to |-> <<"U+1FF8">>],
     [ch |-> "U+1F79", to |-> <<"U+1FF9">>], [ch |-> "U+1F7A", to |-> <<"U+1FEA">>], [ch |-> "U+1F7B", to |-> <<"U+1FEB">>],
     [ch |-> "U+1F7C", to |-> <<"U+1FFA">>], [ch |-> "U+1F7D", to |-> <<"U+1FFB">>], [ch |-> "U+1F80", to |-> <<"U+1F08", "U+0399">>],
     [ch |-> "U+1F81", to |-> <<"U+1F09", "U+0399">>], [ch |-> "U+1F82", to |-> <<"U+1F0A", "U+0399">>], [ch |-> "U+1F83", to |-> <<"U+1F0B", "U+0399">>],
     [ch |-> "U+1F84", to |-> <<"U+1F0C", "U+0399">>], [ch |-> "U+1F85", to |-> <<"U+1F0D", "U+0399">>], [ch |-> "U+1F86", to |-> <<"U+1F0E", "U+0399">>],
     [ch |-> "U+1F87", to |-> <<"U+1F0F", "U+0399">>], [ch |-> "U+1F88", to |-> <<"U+1F08", "U+0399">>], [ch |-> "U+1F89", to |-> <<"U+1F09", "U+0399">>],
     [ch |-> "U+1F8A", to |-> <<"U+1F0A", "U+0399">>], [ch |-> "U+1F8B", to |-> <<"U+1F0B", "U+0399">>], [ch |-> "U+1F8C", to |-> <<"U+1F0C", "U+0399">>],
     [ch |-> "U+1F8D", to |-> <<"U+1F0D", "U+0399">>], [ch |-> "U+1F8E", to |-> <<"U+1F0E", "U+0399">>], [ch |-> "U+1F8F", to |-> <<"U+1F0F", "U+0399">>],
     [ch |-> "U+1F90", to |-> <<"U+1F28", "U+0399">>], [ch |-> "U+1F91", to |-> <<"U+1F29", "U+0399">>], [ch |-> "U+1F92", to |-> <<"U+1F2A", "U+0399">>],
     [ch |-> "U+1F93", to |-> <<"U+1F2B", "U+0399">>], [ch |-> "U+1F94", to |-> <<"U+1F2C", "U+0399">>], [ch |-> "U+1F95", to |-> <<"U+1F2D", "U+0399">>],
     [ch |-> "U+1F96", to |-> <<"U+1F2E", "U+0399">>], [ch |-> "U+1F97", to |-> <<"U+1F2F", "U+0399">>], [ch |-> "U+1F98", to |-> <<"U+1F28", "U+0399">>],
     [ch |-> "U+1F99", to |-> <<"U+1F29", "U+0399">>], [ch |-> "U+1F9A", to |-> <<"U+1F2A", "U+0399">>], [ch |-> "U+1F9B", to |-> <<"U+1F2B", "U+0399">>],
     [ch |-> "U+1F9C", to |-> <<"U+1F2C", "U+0399">>], [ch |-> "U+1F9D", to |-> <<"U+1F2D", "U+0399">>], [ch |-> "U+1F9E", to |-> <<"U+1F2E", "U+0399">>],
     [ch |-> "U+1F9F", to |-> <<"U+1F2F", "U+0399">>], [ch |-> "U+1FA0", to |-> <<"U+1F68", "U+0399">>], [ch |-> "U+1FA1", to |-> <<"U+1F69", "U+0399">>],
     [ch |-> "U+1FA2", to |-> <<"U+1F6A", "U+0399">>], [ch |-> "U+1FA3", to |-> <<"U+1F6B", "U+0399">>], [ch |-> "U+1FA4", to |-> <<"U+1F6C", "U+0399">>],
     [ch |-> "U+1FA5", to |-> <<"U+1F6D", "U+0399">>], [ch |-> "U+1FA6", to |-> <<"U+1F6E", "U+0399">>], [ch |-> "U+1FA7", to |-> <<"U+1F6F", "U+0399">>],
     [ch |-> "U+1FA8", to |-> <<"U+1F68", "U+0399">>], [ch |-> "U+1FA9", to |-> <<"U+1F69", "U+0399">>], [ch |-> "U+1FAA", to |-> <<"U+1F6A", "U+0399">>],
     [ch |-> "U+1FAB", to |-> <<"U+1F6B", "U+0399">>], [ch |-> "U+1FAC", to |-> <<"U+1F6C", "U+0399">>], [ch |-> "U+1FAD", to |-> <<"U+1F6D", "U+0399">>],
     [ch |-> "U+1FAE", to |-> <<"U+1F6E", "U+0399">>], [ch |-> "U+1FAF", to |-> <<"U+1F6F", "U+0399">>], [ch |-> "U+1FB0", to |-> <<"U+1FB8">>],
     [ch |-> "U+1FB1", to |-> <<"U+1FB9">>], [ch |-> "U+1FB2", to |-> <<"U+1FBA", "U+0399">>], [ch |-> "U+1FB3", to |-> <<"U+0391", "U+0399">>],
     [ch |-> "U+1FB4", to |-> <<"U+0386", "U+0399">>], [ch |-> "U+1FB6", to |-> <<"U+0391", "U+0342">>], [ch |-> "U+1FB7", to |-> <<"U+0391", "U+0342", "U+0399">>],
     [ch |-> "U+1FBC", to |-> <<"U+0391", "U+0399">>], [ch |-> "U+1FBE", to |-> <<"U+0399">>], [ch |-> "U+1FC2", to |-> <<"U+1FCA", "U+0399">>],
     [ch |-> "U+1FC3", to |-> <<"U+0397", "U+0399">>], [ch |-> "U+1FC4", to |-> <<"U+0389", "U+0399">>], [ch |-> "U+1FC6", to |-> <<"U+0397", "U+0342">>],
     [ch |-> "U+1FC7", to |-> <<"U+0397", "U+0342", "U+0399">>], [ch |-> "U+1FCC", to |-> <<"U+0397", "U+0399">>], [ch |-> "U+1FD0", to |-> <<"U+1FD8">>],
     [ch |-> "U+1FD1", to |-> <<"U+1FD9">>], [ch |-> "U+1FD2", to |-> <<"U+0399", "U+0308", "U+0300">>], [ch |-> "U+1FD3", to |-> <<"U+0399", "U+0308", "U+0301">>],
     [ch |-> "U+1FD6", to |-> <<"U+0399", "U+0342">>], [ch |-> "U+1FD7", to |-> <<"U+0399", "U+0308", "U+0342">>], [ch |-> "U+1FE0", to |-> <<"U+1FE8">>],
     [ch |-> "U+1FE1", to |-> <<"U+1FE9">>], [ch |-> "U+1FE2", to |-> <<"U+03A5", "U+0308", "U+0300">>], [ch |-> "U+1FE3", to |-> <<"U+03A5", "U+0308", "U+0301">>],
     [ch |-> "U+1FE4", to |-> <<"U+03A1", "U+0313">>], [ch |-> "U+1FE5", to |-> <<"U+1FEC">>], [ch |-> "U+1FE6", to |-> <<"U+03A5", "U+0342">>],
     [ch |-> "U+1FE7", to |-> <<"U+03A5", "U+0308", "U+0342">>], [ch |-> "U+1FF2", to |-> <<"U+1FFA", "U+0399">>], [ch |-> "U+1FF3", to |-> <<"U+03A9", "U+0399">>],
     [ch |-> "U+1FF4", to |-> <<"U+038F", "U+0399">>], [ch |-> "U+1FF6", to |-> <<"U+03A9", "U+0342">>], [ch |-> "U+1FF7", to |-> <<"U+03A9", "U+0342", "U+0399">>],
     [ch |-> "U+1FFC", to |-> <<"U+03A9", "U+0399">>], [ch |-> "U+214E", to |-> <<"U+2132">>], [ch |-> "U+2170", to |-> <<"U+2160">>],
     [ch |-> "U+2171", to |-> <<"U+2161">>], [ch |-> "U+2172", to |-> <<"U+2162">>], [ch |-> "U+2173", to |-> <<"U+2163">>],
     [ch |-> "U+2174", to |-> <<"U+2164">>], [ch |-> "U+2175", to |-> <<"U+2165">>], [ch |-> "U+2176", to |-> <<"U+2166">>],
     [ch |-> "U+2177", to |-> <<"U+2167">>], [ch |-> "U+2178", to |-> <<"U+2168">>], [ch |-> "U+2179", to |-> <<"U+2169">>],
     [ch |-> "U+217A", to |-> <<"U+216A">>], [ch |-> "U+217B", to |-> <<"U+216B">>], [ch |-> "U+217C", to |-> <<"U+216C">>],
     [ch |-> "U+217D", to |-> <<"U+216D">>], [ch |-> "U+217E", to |-> <<"U+216E">>], [ch |-> "U+217F", to |-> <<"U+216F">>],
     [ch |-> "U+2184", to |-> <<"U+2183">>], [ch |-> "U+24D0", to |-> <<"U+24B6">>], [ch |-> "U+24D1", to |-> <<"U+24B7">>],
     [ch |-> "U+24D2", to |-> <<"U+24B8">>], [ch |-> "U+24D3", to |-> <<"U+24B9">>], [ch |-> "U+24D4", to |-> <<"U+24BA">>],
     [ch |-> "U+24D5", to |-> <<"U+24BB">>], [ch |-> "U+24D6", to |-> <<"U+24BC">>], [ch |-> "U+24D7", to |-> <<"U+24BD">>],
     [ch |-> "U+24D8", to |-> <<"U+24BE">>], [ch |-> "U+24D9", to |-> <<"U+24BF">>], [ch |-> "U+24DA", to |-> <<"U+24C0">>],
     [ch |-> "U+24DB", to |-> <<"U+24C1">>], [ch |-> "U+24DC", to |-> <<"U+24C2">>], [ch |-> "U+24DD", to |-> <<"U+24C3">>],
     [ch |-> "U+24DE", to |-> <<"U+24C4">>], [ch |-> "U+24DF", to |-> <<"U+24C5">>], [ch |-> "U+24E0", to |-> <<"U+24C6">>],
     [ch |-> "U+24E1", to |-> <<"U+24C7">>], [ch |-> "U+24E2", to |-> <<"U+24C8">>], [ch |-> "U+24E3", to |-> <<"U+24C9">>],
     [ch |-> "U+24E4", to |-> <<"U+24CA">>], [ch |-> "U+24E5", to |-> <<"U+24CB">>], [ch |-> "U+24E6", to |-> <<"U+24CC">>],
     [ch |-> "U+24E7", to |-> <<"U+24CD">>], [ch |-> "U+24E8", to |-> <<"U+24CE">>], [ch |-> "U+24E9", to |-> <<"U+24CF">>],
     [ch |-> "U+2C30", to |-> <<"U+2C00">>], [ch |-> "U+2C31", to |-> <<"U+2C01">>], [ch |-> "U+2C32", to |-> <<"U+2C02">>],
     [ch |-> "U+2C33", to |-> <<"U+2C03">>], [ch |-> "U+2C34", to |-> <<"U+2C04">>], [ch |-> "U+2C35", to |-> <<"U+2C05">>],
     [ch |-> "U+2C36", to |-> <<"U+2C06">>], [ch |-> "U+2C37", to |-> <<"U+2C07">>], [ch |-> "U+2C38", to |-> <<"U+2C08">>],
     [ch |-> "U+2C39", to |-> <<"U+2C09">>], [ch |-> "U+2C3A", to |-> <<"U+2C0A">>], [ch |-> "U+2C3B", to |-> <<"U+2C0B">>],
     [ch |-> "U+2C3C", to |-> <<"U+2C0C">>], [ch |-> "U+2C3D", to |-> <<"U+2C0D">>], [ch |-> "U+2C3E", to |-> <<"U+2C0E">>],
     [ch |-> "U+2C3F", to |-> <<"U+2C0F">>], [ch |-> "U+2C40", to |-> <<"U+2C10">>], [ch |-> "U+2C41", to |-> <<"U+2C11">>],
     [ch |-> "U+2C42", to |-> <<"U+2C12">>], [ch |-> "U+2C43", to |-> <<"U+2C13">>], [ch |-> "U+2C44", to |-> <<"U+2C14">>],
     [ch |-> "U+2C45", to |-> <<"U+2C15">>], [ch |-> "U+2C46", to |-> <<"U+2C16">>], [ch |-> "U+2C47", to |-> <<"U+2C17">>],
     [ch |-> "U+2C48", to |-> <<"U+2C18">>], [ch |-> "U+2C49", to |-> <<"U+2C19">>], [ch |-> "U+2C4A", to |-> <<"U+2C1A">>],
     [ch |-> "U+2C4B", to |-> <<"U+2C1B">>], [ch |-> "U+2C4C", to |-> <<"U+2C1C">>], [ch |-> "U+2C4D", to |-> <<"U+2C1D">>],
     [ch |-> "U+2C4E", to |-> <<"U+2C1E">>], [ch |-> "U+2C4F", to |-> <<"U+2C1F">>], [ch |-> "U+2C50", to |-> <<"U+2C20">>],
     [ch |-> "U+2C51", to |-> <<"U+2C21">>], [ch |-> "U+2C52", to |-> <<"U+2C22">>], [ch |-> "U+2C53", to |-> <<"U+2C23">>],
     [ch |-> "U+2C54", to |-> <<"U+2C24">>], [ch |-> "U+2C55", to |-> <<"U+2C25">>], [ch |-> "U+2C56", to |-> <<"U+2C26">>],
     [ch |-> "U+2C57", to |-> <<"U+2C27">>], [ch |-> "U+2C58", to |-> <<"U+2C28">>], [ch |-> "U+2C59", to |-> <<"U+2C29">>],
     [ch |-> "U+2C5A", to |-> <<"U+2C2A">>], [ch |-> "U+2C5B", to |-> <<"U+2C2B">>], [ch |-> "U+2C5C", to |-> <<"U+2C2C">>],
     [ch |-> "U+2C5D", to |-> <<"U+2C2D">>], [ch |-> "U+2C5E", to |-> <<"U+2C2E">>], [ch |-> "U+2C5F", to |-> <<"U+2C2F">>],
     [ch |-> "U+2C61", to |-> <<"U+2C60">>], [ch |-> "U+2C65", to |-> <<"U+023A">>], [ch |-> "U+2C66", to |-> <<"U+023E">>],
     [ch |-> "U+2C68", to |-> <<"U+2C67">>], [ch |-> "U+2C6A", to |-> <<"U+2C69">>], [ch |-> "U+2C6C", to |-> <<"U+2C6B">>],
     [ch |-> "U+2C73", to |-> <<"U+2C72">>], [ch |-> "U+2C76", to |-> <<"U+2C75">>], [ch |-> "U+2C81", to |-> <<"U+2C80">>],
     [ch |-> "U+2C83", to |-> <<"U+2C82">>], [ch |-> "U+2C85", to |-> <<"U+2C84">>], [ch |-> "U+2C87", to |-> <<"U+2C86">>],
     [ch |-> "U+2C89", to |-> <<"U+2C88">>], [ch |-> "U+2C8B", to |-> <<"U+2C8A">>], [ch |-> "U+2C8D", to |-> <<"U+2C8C">>],
     [ch |-> "U+2C8F", to |-> <<"U+2C8E">>], [ch |-> "U+2C91", to |-> <<"U+2C90">>], [ch |-> "U+2C93", to |-> <<"U+2C92">>],
     [ch |-> "U+2C95", to |-> <<"U+2C94">>], [ch |-> "U+2C97", to |-> <<"U+2C96">>], [ch |-> "U+2C99", to |-> <<"U+2C98">>],
     [ch |-> "U+2C9B", to |-> <<"U+2C9A">>], [ch |-> "U+2C9D", to |-> <<"U+2C9C">>], [ch |-> "U+2C9F", to |-> <<"U+2C9E">>],
     [ch |-> "U+2CA1", to |-> <<"U+2CA0">>], [ch |-> "U+2CA3", to |-> <<"U+2CA2">>], [ch |-> "U+2CA5", to |-> <<"U+2CA4">>],
     [ch |-> "U+2CA7", to |-> <<"U+2CA6">>], [ch |-> "U+2CA9", to |-> <<"U+2CA8">>], [ch |-> "U+2CAB", to |-> <<"U+2CAA">>],
     [ch |-> "U+2CAD", to |-> <<"U+2CAC">>], [ch |-> "U+2CAF", to |-> <<"U+2CAE">>], [ch |-> "U+2CB1", to |-> <<"U+2CB0">>],
     [ch |-> "U+2CB3", to |-> <<"U+2CB2">>], [ch |-> "U+2CB5", to |-> <<"U+2CB4">>], [ch |-> "U+2CB7", to |-> <<"U+2CB6">>],
     [ch |-> "U+2CB9", to |-> <<"U+2CB8">>], [ch |-> "U+2CBB", to |-> <<"U+2CBA">>], [ch |-> "U+2CBD", to |-> <<"U+2CBC">>],
     [ch |-> "U+2CBF", to |-> <<"U+2CBE">>], [ch |-> "U+2CC1", to |-> <<"U+2CC0">>], [ch |-> "U+2CC3", to |-> <<"U+2CC2">>],
     [ch |-> "U+2CC5", to |-> <<"U+2CC4">>], [ch |-> "U+2CC7", to |-> <<"U+2CC6">>], [ch |-> "U+2CC9", to |-> <<"U+2CC8">>],
     [ch |-> "U+2CCB", to |-> <<"U+2CCA">>], [ch |-> "U+2CCD", to |-> <<"U+2CCC">>], [ch |-> "U+2CCF", to |-> <<"U+2CCE">>],
     [ch |-> "U+2CD1", to |-> <<"U+2CD0">>], [ch |-> "U+2CD3", to |-> <<"U+2CD2">>], [ch |-> "U+2CD5", to |-> <<"U+2CD4">>],
     [ch |-> "U+2CD7", to |-> <<"U+2CD6">>], [ch |-> "U+2CD9", to |-> <<"U+2CD8">>], [ch |-> "U+2CDB", to |-> <<"U+2CDA">>],
     [ch |-> "U+2CDD", to |-> <<"U+2CDC">>], [ch |-> "U+2CDF", to |-> <<"U+2CDE">>], [ch |-> "U+2CE1", to |-> <<"U+2CE0">>],
     [ch |-> "U+2CE3", to |-> <<"U+2CE2">>], [ch |-> "U+2CEC", to |-> <<"U+2CEB">>], [ch |-> "U+2CEE", to |-> <<"U+2CED">>],
     [ch |-> "U+2CF3", to |-> <<"U+2CF2">>], [ch |-> "U+2D00", to |-> <<"U+10A0">>], [ch |-> "U+2D01", to |-> <<"U+10A1">>],
     [ch |-> "U+2D02", to |-> <<"U+10A2">>], [ch |-> "U+2D03", to |-> <<"U+10A3">>], [ch |-> "U+2D04", to |-> <<"U+10A4">>],
     [ch |-> "U+2D05", to |-> <<"U+10A5">>], [ch |-> "U+2D06", to |-> <<"U+10A6">>], [ch |-> "U+2D07", to |-> <<"U+10A7">>],
     [ch |-> "U+2D08", to |-> <<"U+10A8">>], [ch |-> "U+2D09", to |-> <<"U+10A9">>], [ch |-> "U+2D0A", to |-> <<"U+10AA">>],
     [ch |-> "U+2D0B", to |-> <<"U+10AB">>], [ch |-> "U+2D0C", to |-> <<"U+10AC">>], [ch |-> "U+2D0D", to |-> <<"U+10AD">>],
     [ch |-> "U+2D0E", to |-> <<"U+10AE">>], [ch |-> "U+2D0F", to |-> <<"U+10AF">>], [ch |-> "U+2D10", to |-> <<"U+10B0">>],
     [ch |-> "U+2D11", to |-> <<"U+10B1">>], [ch |-> "U+2D12", to |-> <<"U+10B2">>], [ch |-> "U+2D13", to |-> <<"U+10B3">>],
     [ch |-> "U+2D14", to |-> <<"U+10B4">>], [ch |-> "U+2D15", to |-> <<"U+10B5">>], [ch |-> "U+2D16", to |-> <<"U+10B6">>],
     [ch |-> "U+2D17", to |-> <<"U+10B7">>], [ch |-> "U+2D18", to |-> <<"U+10B8">>], [ch |-> "U+2D19", to |-> <<"U+10B9">>],
     [ch |-> "U+2D1A", to |-> <<"U+10BA">>], [ch |-> "U+2D1B", to |-> <<"U+10BB">>], [ch |-> "U+2D1C", to |-> <<"U+10BC">>],
     [ch |-> "U+2D1D", to |-> <<"U+10BD">>], [ch |-> "U+2D1E", to |-> <<"U+10BE">>], [ch |-> "U+2D1F", to |-> <<"U+10BF">>],
     [ch |-> "U+2D20", to |-> <<"U+10C0">>], [ch |-> "U+2D21", to |-> <<"U+10C1">>], [ch |-> "U+2D22", to |-> <<"U+10C2">>],
     [ch |-> "U+2D23", to |-> <<"U+10C3">>], [ch |-> "U+2D24", to |-> <<"U+10C4">>], [ch |-> "U+2D25", to |-> <<"U+10C5">>],
     [ch |-> "U+2D27", to |-> <<"U+10C7">>], [ch |-> "U+2D2D", to |-> <<"U+10CD">>], [ch |-> "U+A641", to |-> <<"U+A640">>],
     [ch |-> "U+A643", to |-> <<"U+A642">>], [ch |-> "U+A645", to |-> <<"U+A644">>], [ch |-> "U+A647", to |-> <<"U+A646">>],
     [ch |-> "U+A649", to |-> <<"U+A648">>], [ch |-> "U+A64B", to |-> <<"U+A64A">>], [ch |-> "U+A64D", to |-> <<"U+A64C">>],
     [ch |-> "U+A64F", to |-> <<"U+A64E">>], [ch |-> "U+A651", to |-> <<"U+A650">>], [ch |-> "U+A653", to |-> <<"U+A652">>],
     [ch |-> "U+A655", to |-> <<"U+A654">>], [ch |-> "U+A657", to |-> <<"U+A656">>], [ch |-> "U+A659", to |-> <<"U+A658">>],
     [ch |-> "U+A65B", to |-> <<"U+A65A">>], [ch |-> "U+A65D", to |-> <<"U+A65C">>], [ch |-> "U+A65F", to |-> <<"U+A65E">>],
     [ch |-> "U+A661", to |-> <<"U+A660">>], [ch |-> "U+A663", to |-> <<"U+A662">>], [ch |-> "U+A665", to |-> <<"U+A664">>],
     [ch |-> "U+A667", to |-> <<"U+A666">>], [ch |-> "U+A669", to |-> <<"U+A668">>], [ch |-> "U+A66B", to |-> <<"U+A66A">>],
     [ch |-> "U+A66D", to |-> <<"U+A66C">>], [ch |-> "U+A681", to |-> <<"U+A680">>], [ch |-> "U+A683", to |-> <<"U+A682">>],
     [ch |-> "U+A685", to |-> <<"U+A684">>], [ch |-> "U+A687", to |-> <<"U+A686">>], [ch |-> "U+A689", to |-> <<"U+A688">>],
     [ch |-> "U+A68B", to |-> <<"U+A68A">>], [ch |-> "U+A68D", to |-> <<"U+A68C">>], [ch |-> "U+A68F", to |-> <<"U+A68E">>],
     [ch |-> "U+A691", to |-> <<"U+A690">>], [ch |-> "U+A693", to |-> <<"U+A692">>], [ch |-> "U+A695", to |-> <<"U+A694">>],
     [ch |-> "U+A697", to |-> <<"U+A696">>], [ch |-> "U+A699", to |-> <<"U+A698">>], [ch |-> "U+A69B", to |-> <<"U+A69A">>],
     [ch |-> "U+A723", to |-> <<"U+A722">>], [ch |-> "U+A725", to |-> <<"U+A724">>], [ch |-> "U+A727", to |-> <<"U+A726">>],
     [ch |-> "U+A729", to |-> <<"U+A728">>], [ch |-> "U+A72B", to |-> <<"U+A72A">>], [ch |-> "U+A72D", to |-> <<"U+A72C">>],
     [ch |-> "U+A72F", to |-> <<"U+A72E">>], [ch |-> "U+A733", to |-> <<"U+A732">>], [ch |-> "U+A735", to |-> <<"U+A734">>],
     [ch |-> "U+A737", to |-> <<"U+A736">>], [ch |-> "U+A739", to |-> <<"U+A738">>], [ch |-> "U+A73B", to |-> <<"U+A73A">>],
     [ch |-> "U+A73D", to |-> <<"U+A73C">>], [ch |-> "U+A73F", to |-> <<"U+A73E">>], [ch |-> "U+A741", to |-> <<"U+A740">>],
     [ch |-> "U+A743", to |-> <<"U+A742">>], [ch |-> "U+A745", to |-> <<"U+A744">>], [ch |-> "U+A747", to |-> <<"U+A746">>],
     [ch |-> "U+A749", to |-> <<"U+A748">>], [ch |-> "U+A74B", to |-> <<"U+A74A">>], [ch |-> "U+A74D", to |-> <<"U+A74C">>],
     [ch |-> "U+A74F", to |-> <<"U+A74E">>], [ch |-> "U+A751", to |-> <<"U+A750">>], [ch |-> "U+A753", to |-> <<"U+A752">>],
     [ch |-> "U+A755", to |-> <<"U+A754">>], [ch |-> "U+A757", to |-> <<"U+A756">>], [ch |-> "U+A759", to |-> <<"U+A758">>],
     [ch |-> "U+A75B", to |-> <<"U+A75A">>], [ch |-> "U+A75D", to |-> <<"U+A75C">>], [ch |-> "U+A75F", to |-> <<"U+A75E">>],
     [ch |-> "U+A761", to |-> <<"U+A760">>], [ch |-> "U+A763", to |-> <<"U+A762">>], [ch |-> "U+A765", to |-> <<"U+A764">>],
     [ch |-> "U+A767", to |-> <<"U+A766">>], [ch |-> "U+A769", to |-> <<"U+A768">>], [ch |-> "U+A76B", to |-> <<"U+A76A">>],
     [ch |-> "U+A76D", to |-> <<"U+A76C">>], [ch |-> "U+A76F", to |-> <<"U+A76E">>], [ch |-> "U+A77A", to |-> <<"U+A779">>],
     [ch |-> "U+A77C", to |-> <<"U+A77B">>], [ch |-> "U+A77F", to |-> <<"U+A77E">>], [ch |-> "U+A781", to |-> <<"U+A780">>],
     [ch |-> "U+A783", to |-> <<"U+A782">>], [ch |-> "U+A785", to |-> <<"U+A784">>], [ch |-> "U+A787", to |-> <<"U+A786">>],
     [ch |-> "U+A78C", to |-> <<"U+A78B">>], [ch |-> "U+A791", to |-> <<"U+A790">>], [ch |-> "U+A793", to |-> <<"U+A792">>],
     [ch |-> "U+A794", to |-> <<"U+A7C4">>], [ch |-> "U+A797", to |-> <<"U+A796">>], [ch |-> "U+A799", to |-> <<"U+A798">>],
     [ch |-> "U+A79B", to |-> <<"U+A79A">>], [ch |-> "U+A79D", to |-> <<"U+A79C">>], [ch |-> "U+A79F", to |-> <<"U+A79E">>],
     [ch |-> "U+A7A1", to |-> <<"U+A7A0">>], [ch |-> "U+A7A3", to |-> <<"U+A7A2">>], [ch |-> "U+A7A5", to |-> <<"U+A7A4">>],
     [ch |-> "U+A7A7", to |-> <<"U+A7A6">>], [ch |-> "U+A7A9", to |-> <<"U+A7A8">>], [ch |-> "U+A7B5", to |-> <<"U+A7B4">>],
     [ch |-> "U+A7B7", to |-> <<"U+A7B6">>], [ch |-> "U+A7B9", to |-> <<"U+A7B8">>], [ch |-> "U+A7BB", to |-> <<"U+A7BA">>],
     [ch |-> "U+A7BD", to |-> <<"U+A7BC">>], [ch |-> "U+A7BF", to |-> <<"U+A7BE">>], [ch |-> "U+A7C1", to |-> <<"U+A7C0">>],
     [ch |-> "U+A7C3", to |-> <<"U+A7C2">>], [ch |-> "U+A7C8", to |-> <<"U+A7C7">>], [ch |-> "U+A7CA", to |-> <<"U+A7C9">>],
     [ch |-> "U+A7D1", to |-> <<"U+A7D0">>], [ch |-> "U+A7D7", to |-> <<"U+A7D6">>], [ch |-> "U+A7D9", to |-> <<"U+A7D8">>],
     [ch |-> "U+A7F6", to |-> <<"U+A7F5">>], [ch |-> "U+AB53", to |-> <<"U+A7B3">>], [ch |-> "U+AB70", to |-> <<"U+13A0">>],
     [ch |-> "U+AB71", to |-> <<"U+13A1">>], [ch |-> "U+AB72", to |-> <<"U+13A2">>], [ch |-> "U+AB73", to |-> <<"U+13A3">>],
     [ch |-> "U+AB74", to |-> <<"U+13A4">>], [ch |-> "U+AB75", to |-> <<"U+13A5">>], [ch |-> "U+AB76", to |-> <<"U+13A6">>],
     [ch |-> "U+AB77", to |-> <<"U+13A7">>], [ch |-> "U+AB78", to |-> <<"U+13A8">>], [ch |-> "U+AB79", to |-> <<"U+13A9">>],
     [ch |-> "U+AB7A", to |-> <<"U+13AA">>], [ch |-> "U+AB7B", to |-> <<"U+13AB">>], [ch |-> "U+AB7C", to |-> <<"U+13AC">>],
     [ch |-> "U+AB7D", to |-> <<"U+13AD">>], [ch |-> "U+AB7E", to |-> <<"U+13AE">>], [ch |-> "U+AB7F", to |-> <<"U+13AF">>],
     [ch |-> "U+AB80", to |-> <<"U+13B0">>], [ch |-> "U+AB81", to |-> <<"U+13B1">>], [ch |-> "U+AB82", to |-> <<"U+13B2">>],
     [ch |-> "U+AB83", to |-> <<"U+13B3">>], [ch |-> "U+AB84", to |-> <<"U+13B4">>], [ch |-> "U+AB85", to |-> <<"U+13B5">>],
     [ch |-> "U+AB86", to |-> <<"U+13B6">>], [ch |-> "U+AB87", to |-> <<"U+13B7">>], [ch |-> "U+AB88", to |-> <<"U+13B8">>],
     [ch |-> "U+AB89", to |-> <<"U+13B9">>], [ch |-> "U+AB8A", to |-> <<"U+13BA">>], [ch |-> "U+AB8B", to |-> <<"U+13BB">>],
     [ch |-> "U+AB8C", to |-> <<"U+13BC">>], [ch |-> "U+AB8D", to |-> <<"U+13BD">>], [ch |-> "U+AB8E", to |-> <<"U+13BE">>],
     [ch |-> "U+AB8F", to |-> <<"U+13BF">>], [ch |-> "U+AB90", to |-> <<"U+13C0">>], [ch |-> "U+AB91", to |-> <<"U+13C1">>],
     [ch |-> "U+AB92", to |-> <<"U+13C2">>], [ch |-> "U+AB93", to |-> <<"U+13C3">>], [ch |-> "U+AB94", to |-> <<"U+13C4">>],
     [ch |-> "U+AB95", to |-> <<"U+13C5">>], [ch |-> "U+AB96", to |-> <<"U+13C6">>], [ch |-> "U+AB97", to |-> <<"U+13C7">>],
     [ch |-> "U+AB98", to |-> <<"U+13C8">>], [ch |-> "U+AB99", to |-> <<"U+13C9">>], [ch |-> "U+AB9A", to |-> <<"U+13CA">>],
     [ch |-> "U+AB9B", to |-> <<"U+13CB">>], [ch |-> "U+AB9C", to |-> <<"U+13CC">>], [ch |-> "U+AB9D", to |-> <<"U+13CD">>],
     [ch |-> "U+AB9E", to |-> <<"U+13CE">>], [ch |-> "U+AB9F", to |-> <<"U+13CF">>], [ch |-> "U+ABA0", to |-> <<"U+13D0">>],
     [ch |-> "U+ABA1", to |-> <<"U+13D1">>], [ch |-> "U+ABA2", to |-> <<"U+13D2">>], [ch |-> "U+ABA3", to |-> <<"U+13D3">>],
     [ch |-> "U+ABA4", to |-> <<"U+13D4">>], [ch |-> "U+ABA5", to |-> <<"U+13D5">>], [ch |-> "U+ABA6", to |-> <<"U+13D6">>],
     [ch |-> "U+ABA7", to |-> <<"U+13D7">>], [ch |-> "U+ABA8", to |-> <<"U+13D8">>], [ch |-> "U+ABA9", to |-> <<"U+13D9">>],
     [ch |-> "U+ABAA", to |-> <<"U+13DA">>], [ch |-> "U+ABAB", to |-> <<"U+13DB">>], [ch |-> "U+ABAC", to |-> <<"U+13DC">>],
     [ch |-> "U+ABAD", to |-> <<"U+13DD">>], [ch |-> "U+ABAE", to |-> <<"U+13DE">>], [ch |-> "U+ABAF", to |-> <<"U+13DF">>],
     [ch |-> "U+ABB0", to |-> <<"U+13E0">>], [ch |-> "U+ABB1", to |-> <<"U+13E1">>], [ch |-> "U+ABB2", to |-> <<"U+13E2">>],
     [ch |-> "U+ABB3", to |-> <<"U+13E3">>], [ch |-> "U+ABB4", to |-> <<"U+13E4">>], [ch |-> "U+ABB5", to |-> <<"U+13E5">>],
     [ch |-> "U+ABB6", to |-> <<"U+13E6">>], [ch |-> "U+ABB7", to |-> <<"U+13E7">>], [ch |-> "U+ABB8", to |-> <<"U+13E8">>],
     [ch |-> "U+ABB9", to |-> <<"U+13E9">>], [ch |-> "U+ABBA", to |-> <<"U+13EA">>], [ch |-> "U+ABBB", to |-> <<"U+13EB">>],
     [ch |-> "U+ABBC", to |-> <<"U+13EC">>], [ch |-> "U+ABBD", to |-> <<"U+13ED">>], [ch |-> "U+ABBE", to |-> <<"U+13EE">>],
     [ch |-> "U+ABBF", to |-> <<"U+13EF">>], [ch |-> "U+FB00", to |-> <<"F", "F">>], [ch |-> "U+FB01", to |-> <<"F", "I">>],
     [ch |-> "U+FB02", to |-> <<"F", "L">>], [ch |-> "U+FB03", to |-> <<"F", "F", "I">>], [ch |-> "U+FB04", to |-> <<"F", "F", "L">>],
     [ch |-> "U+FB05", to |-> <<"S", "T">>], [ch |-> "U+FB06", to |-> <<"S", "T">>], [ch |-> "U+FB13", to |-> <<"U+0544", "U+0546">>],
     [ch |-> "U+FB14", to |-> <<"U+0544", "U+0535">>], [ch |-> "U+FB15", to |-> <<"U+0544", "U+053B">>], [ch |-> "U+FB16", to |-> <<"U+054E", "U+0546">>],
     [ch |-> "U+FB17", to |-> <<"U+0544", "U+053D">>], [ch |-> "U+FF41", to |-> <<"U+FF21">>], [ch |-> "U+FF42", to |-> <<"U+FF22">>],
     [ch |-> "U+FF43", to |-> <<"U+FF23">>], [ch |-> "U+FF44", to |-> <<"U+FF24">>], [ch |-> "U+FF45", to |-> <<"U+FF25">>],
     [ch |-> "U+FF46", to |-> <<"U+FF26">>], [ch |-> "U+FF47", to |-> <<"U+FF27">>], [ch |-> "U+FF48", to |-> <<"U+FF28">>],
     [ch |-> "U+FF49", to |-> <<"U+FF29">>], [ch |-> "U+FF4A", to |-> <<"U+FF2A">>], [ch |-> "U+FF4B", to |-> <<"U+FF2B">>],
     [ch |-> "U+FF4C", to |-> <<"U+FF2C">>], [ch |-> "U+FF4D", to |-> <<"U+FF2D">>], [ch |-> "U+FF4E", to |-> <<"U+FF2E">>],
     [ch |-> "U+FF4F", to |-> <<"U+FF2F">>], [ch |-> "U+FF50", to |-> <<"U+FF30">>], [ch |-> "U+FF51", to |-> <<"U+FF31">>],
     [ch |-> "U+FF52", to |-> <<"U+FF32">>], [ch |-> "U+FF53", to |-> <<"U+FF33">>], [ch |-> "U+FF54", to |-> <<"U+FF34">>],
     [ch |-> "U+FF55", to |-> <<"U+FF35">>], [ch |-> "U+FF56", to |-> <<"U+FF36">>], [ch |-> "U+FF57", to |-> <<"U+FF37">>],
     [ch |-> "U+FF58", to |-> <<"U+FF38">>], [ch |-> "U+FF59", to |-> <<"U+FF39">>], [ch |-> "U+FF5A", to |-> <<"U+FF3A">>],
     [ch |-> "U+10428", to |-> <<"U+10400">>], [ch |-> "U+10429", to |-> <<"U+10401">>], [ch |-> "U+1042A", to |-> <<"U+10402">>],
     [ch |-> "U+1042B", to |-> <<"U+10403">>], [ch |-> "U+1042C", to |-> <<"U+10404">>], [ch |-> "U+1042D", to |-> <<"U+10405">>],
     [ch |-> "U+1042E", to |-> <<"U+10406">>], [ch |-> "U+1042F", to |-> <<"U+10407">>], [ch |-> "U+10430", to |-> <<"U+10408">>],
     [ch |-> "U+10431", to |-> <<"U+10409">>], [ch |-> "U+10432", to |-> <<"U+1040A">>], [ch |-> "U+10433", to |-> <<"U+1040B">>],
     [ch |-> "U+10434", to |-> <<"U+1040C">>], [ch |-> "U+10435", to |-> <<"U+1040D">>], [ch |-> "U+10436", to |-> <<"U+1040E">>],
     [ch |-> "U+10437", to |-> <<"U+1040F">>], [ch |-> "U+10438", to |-> <<"U+10410">>], [ch |-> "U+10439", to |-> <<"U+10411">>],
     [ch |-> "U+1043A", to |-> <<"U+10412">>], [ch |-> "U+1043B", to |-> <<"U+10413">>], [ch |-> "U+1043C", to |-> <<"U+10414">>],
     [ch |-> "U+1043D", to |-> <<"U+10415">>], [ch |-> "U+1043E", to |-> <<"U+10416">>], [ch |-> "U+1043F", to |-> <<"U+10417">>],
     [ch |-> "U+10440", to |-> <<"U+10418">>], [ch |-> "U+10441", to |-> <<"U+10419">>], [ch |-> "U+10442", to |-> <<"U+1041A">>],
     [ch |-> "U+10443", to |-> <<"U+1041B">>], [ch |-> "U+10444", to |-> <<"U+1041C">>], [ch |-> "U+10445", to |-> <<"U+1041D">>],
     [ch |-> "U+10446", to |-> <<"U+1041E">>], [ch |-> "U+10447", to |-> <<"U+1041F">>], [ch |-> "U+10448", to |-> <<"U+10420">>],
     [ch |-> "U+10449", to |-> <<"U+10421">>], [ch |-> "U+1044A", to |-> <<"U+10422">>], [ch |-> "U+1044B", to |-> <<"U+10423">>],
     [ch |-> "U+1044C", to |-> <<"U+10424">>], [ch |-> "U+1044D", to |-> <<"U+10425">>], [ch |-> "U+1044E", to |-> <<"U+10426">>],
     [ch |-> "U+1044F", to |-> <<"U+10427">>], [ch |-> "U+104D8", to |-> <<"U+104B0">>], [ch |-> "U+104D9", to |-> <<"U+104B1">>],
     [ch |-> "U+104DA", to |-> <<"U+104B2">>], [ch |-> "U+104DB", to |-> <<"U+104B3">>], [ch |-> "U+104DC", to |-> <<"U+104B4">>],
     [ch |-> "U+104DD", to |-> <<"U+104B5">>], [ch |-> "U+104DE", to |-> <<"U+104B6">>], [ch |-> "U+104DF", to |-> <<"U+104B7">>],
     [ch |-> "U+104E0", to |-> <<"U+104B8">>], [ch |-> "U+104E1", to |-> <<"U+104B9">>], [ch |-> "U+104E2", to |-> <<"U+104BA">>],
     [ch |-> "U+104E3", to |-> <<"U+104BB">>], [ch |-> "U+104E4", to |-> <<"U+104BC">>], [ch |-> "U+104E5", to |-> <<"U+104BD">>],
     [ch |-> "U+104E6", to |-> <<"U+104BE">>], [ch |-> "U+104E7", to |-> <<"U+104BF">>], [ch |-> "U+104E8", to |-> <<"U+104C0">>],
     [ch |-> "U+104E9", to |-> <<"U+104C1">>], [ch |-> "U+104EA", to |-> <<"U+104C2">>], [ch |-> "U+104EB", to |-> <<"U+104C3">>],
     [ch |-> "U+104EC", to |-> <<"U+104C4">>], [ch |-> "U+104ED", to |-> <<"U+104C5">>], [ch |-> "U+104EE", to |-> <<"U+104C6">>],
     [ch |-> "U+104EF", to |-> <<"U+104C7">>], [ch |-> "U+104F0", to |-> <<"U+104C8">>], [ch |-> "U+104F1", to |-> <<"U+104C9">>],
     [ch |-> "U+104F2", to |-> <<"U+104CA">>], [ch |-> "U+104F3", to |-> <<"U+104CB">>], [ch |-> "U+104F4", to |-> <<"U+104CC">>],
     [ch |-> "U+104F5", to |-> <<"U+104CD">>], [ch |-> "U+104F6", to |-> <<"U+104CE">>], [ch |-> "U+104F7", to |-> <<"U+104CF">>],
     [ch |-> "U+104F8", to |-> <<"U+104D0">>], [ch |-> "U+104F9", to |-> <<"U+104D1">>], [ch |-> "U+104FA", to |-> <<"U+104D2">>],
     [ch |-> "U+104FB", to |-> <<"U+104D3">>], [ch |-> "U+10597", to |-> <<"U+10570">>], [ch |-> "U+10598", to |-> <<"U+10571">>],
     [ch |-> "U+10599", to |-> <<"U+10572">>], [ch |-> "U+1059A", to |-> <<"U+10573">>], [ch |-> "U+1059B", to |-> <<"U+10574">>],
     [ch |-> "U+1059C", to |-> <<"U+10575">>], [ch |-> "U+1059D", to |-> <<"U+10576">>], [ch |-> "U+1059E", to |-> <<"U+10577">>],
     [ch |-> "U+1059F", to |-> <<"U+10578">>], [ch |-> "U+105A0", to |-> <<"U+10579">>], [ch |-> "U+105A1", to |-> <<"U+1057A">>],
     [ch |-> "U+105A3", to |-> <<"U+1057C">>], [ch |-> "U+105A4", to |-> <<"U+1057D">>], [ch |-> "U+105A5", to |-> <<"U+1057E">>],
     [ch |-> "U+105A6", to |-> <<"U+1057F">>], [ch |-> "U+105A7", to |-> <<"U+10580">>], [ch |-> "U+105A8", to |-> <<"U+10581">>],
     [ch |-> "U+105A9", to |-> <<"U+10582">>], [ch |-> "U+105AA", to |-> <<"U+10583">>], [ch |-> "U+105AB", to |-> <<"U+10584">>],
     [ch |-> "U+105AC", to |-> <<"U+10585">>], [ch |-> "U+105AD", to |-> <<"U+10586">>], [ch |-> "U+105AE", to |-> <<"U+10587">>],
     [ch |-> "U+105AF", to |-> <<"U+10588">>], [ch |-> "U+105B0", to |-> <<"U+10589">>], [ch |-> "U+105B1", to |-> <<"U+1058A">>],
     [ch |-> "U+105B3", to |-> <<"U+1058C">>], [ch |-> "U+105B4", to |-> <<"U+1058D">>], [ch |-> "U+105B5", to |-> <<"U+1058E">>],
     [ch |-> "U+105B6", to |-> <<"U+1058F">>], [ch |-> "U+105B7", to |-> <<"U+10590">>], [ch |-> "U+105B8", to |-> <<"U+10591">>],
     [ch |-> "U+105B9", to |-> <<"U+10592">>], [ch |-> "U+105BB", to |-> <<"U+10594">>], [ch |-> "U+105BC", to |-> <<"U+10595">>],
     [ch |-> "U+10CC0", to |-> <<"U+10C80">>], [ch |-> "U+10CC1", to |-> <<"U+10C81">>], [ch |-> "U+10CC2", to |-> <<"U+10C82">>],
     [ch |-> "U+10CC3", to |-> <<"U+10C83">>], [ch |-> "U+10CC4", to |-> <<"U+10C84">>], [ch |-> "U+10CC5", to |-> <<"U+10C85">>],
     [ch |-> "U+10CC6", to |-> <<"U+10C86">>], [ch |-> "U+10CC7", to |-> <<"U+10C87">>], [ch |-> "U+10CC8", to |-> <<"U+10C88">>],
     [ch |-> "U+10CC9", to |-> <<"U+10C89">>], [ch |-> "U+10CCA", to |-> <<"U+10C8A">>], [ch |-> "U+10CCB", to |-> <<"U+10C8B">>],
     [ch |-> "U+10CCC", to |-> <<"U+10C8C">>], [ch |-> "U+10CCD", to |-> <<"U+10C8D">>], [ch |-> "U+10CCE", to |-> <<"U+10C8E">>],
     [ch |-> "U+10CCF", to |-> <<"U+10C8F">>], [ch |-> "U+10CD0", to |-> <<"U+10C90">>], [ch |-> "U+10CD1", to |-> <<"U+10C91">>],
     [ch |-> "U+10CD2", to |-> <<"U+10C92">>], [ch |-> "U+10CD3", to |-> <<"U+10C93">>], [ch |-> "U+10CD4", to |-> <<"U+10C94">>],
     [ch |-> "U+10CD5", to |-> <<"U+10C95">>], [ch |-> "U+10CD6", to |-> <<"U+10C96">>], [ch |-> "U+10CD7", to |-> <<"U+10C97">>],
     [ch |-> "U+10CD8", to |-> <<"U+10C98">>], [ch |-> "U+10CD9", to |-> <<"U+10C99">>], [ch |-> "U+10CDA", to |-> <<"U+10C9A">>],
     [ch |-> "U+10CDB", to |-> <<"U+10C9B">>], [ch |-> "U+10CDC", to |-> <<"U+10C9C">>], [ch |-> "U+10CDD", to |-> <<"U+10C9D">>],
     [ch |-> "U+10CDE", to |-> <<"U+10C9E">>], [ch |-> "U+10CDF", to |-> <<"U+10C9F">>], [ch |-> "U+10CE0", to |-> <<"U+10CA0">>],
     [ch |-> "U+10CE1", to |-> <<"U+10CA1">>], [ch |-> "U+10CE2", to |-> <<"U+10CA2">>], [ch |-> "U+10CE3", to |-> <<"U+10CA3">>],
     [ch |-> "U+10CE4", to |-> <<"U+10CA4">>], [ch |-> "U+10CE5", to |-> <<"U+10CA5">>], [ch |-> "U+10CE6", to |-> <<"U+10CA6">>],
     [ch |-> "U+10CE7", to |-> <<"U+10CA7">>], [ch |-> "U+10CE8", to |-> <<"U+10CA8">>], [ch |-> "U+10CE9", to |-> <<"U+10CA9">>],
     [ch |-> "U+10CEA", to |-> <<"U+10CAA">>], [ch |-> "U+10CEB", to |-> <<"U+10CAB">>], [ch |-> "U+10CEC", to |-> <<"U+10CAC">>],
     [ch |-> "U+10CED", to |-> <<"U+10CAD">>], [ch |-> "U+10CEE", to |-> <<"U+10CAE">>], [ch |-> "U+10CEF", to |-> <<"U+10CAF">>],
     [ch |-> "U+10CF0", to |-> <<"U+10CB0">>], [ch |-> "U+10CF1", to |-> <<"U+10CB1">>], [ch |-> "U+10CF2", to |-> <<"U+10CB2">>],
     [ch |-> "U+118C0", to |-> <<"U+118A0">>], [ch |-> "U+118C1", to |-> <<"U+118A1">>], [ch |-> "U+118C2", to |-> <<"U+118A2">>],
     [ch |-> "U+118C3", to |-> <<"U+118A3">>], [ch |-> "U+118C4", to |-> <<"U+118A4">>], [ch |-> "U+118C5", to |-> <<"U+118A5">>],
     [ch |-> "U+118C6", to |-> <<"U+118A6">>], [ch |-> "U+118C7", to |-> <<"U+118A7">>], [ch |-> "U+118C8", to |-> <<"U+118A8">>],
     [ch |-> "U+118C9", to |-> <<"U+118A9">>], [ch |-> "U+118CA", to |-> <<"U+118AA">>], [ch |-> "U+118CB", to |-> <<"U+118AB">>],
     [ch |-> "U+118CC", to |-> <<"U+118AC">>], [ch |-> "U+118CD", to |-> <<"U+118AD">>], [ch |-> "U+118CE", to |-> <<"U+118AE">>],
     [ch |-> "U+118CF", to |-> <<"U+118AF">>], [ch |-> "U+118D0", to |-> <<"U+118B0">>], [ch |-> "U+118D1", to |-> <<"U+118B1">>],
     [ch |-> "U+118D2", to |-> <<"U+118B2">>], [ch |-> "U+118D3", to |-> <<"U+118B3">>], [ch |-> "U+118D4", to |-> <<"U+118B4">>],
     [ch |-> "U+118D5", to |-> <<"U+118B5">>], [ch |-> "U+118D6", to |-> <<"U+118B6">>], [ch |-> "U+118D7", to |-> <<"U+118B7">>],
     [ch |-> "U+118D8", to |-> <<"U+118B8">>], [ch |-> "U+118D9", to |-> <<"U+118B9">>], [ch |-> "U+118DA", to |-> <<"U+118BA">>],
     [ch |-> "U+118DB", to |-> <<"U+118BB">>], [ch |-> "U+118DC", to |-> <<"U+118BC">>], [ch |-> "U+118DD", to |-> <<"U+118BD">>],
     [ch |-> "U+118DE", to |-> <<"U+118BE">>], [ch |-> "U+118DF", to |-> <<"U+118BF">>], [ch |-> "U+16E60", to |-> <<"U+16E40">>],
     [ch |-> "U+16E61", to |-> <<"U+16E41">>], [ch |-> "U+16E62", to |-> <<"U+16E42">>], [ch |-> "U+16E63", to |-> <<"U+16E43">>],
     [ch |-> "U+16E64", to |-> <<"U+16E44">>], [ch |-> "U+16E65", to |-> <<"U+16E45">>], [ch |-> "U+16E66", to |-> <<"U+16E46">>],
     [ch |-> "U+16E67", to |-> <<"U+16E47">>], [ch |-> "U+16E68", to |-> <<"U+16E48">>], [ch |-> "U+16E69", to |-> <<"U+16E49">>],
     [ch |-> "U+16E6A", to |-> <<"U+16E4A">>], [ch |-> "U+16E6B", to |-> <<"U+16E4B">>], [ch |-> "U+16E6C", to |-> <<"U+16E4C">>],
     [ch |-> "U+16E6D", to |-> <<"U+16E4D">>], [ch |-> "U+16E6E", to |-> <<"U+16E4E">>], [ch |-> "U+16E6F", to |-> <<"U+16E4F">>],
     [ch |-> "U+16E70", to |-> <<"U+16E50">>], [ch |-> "U+16E71", to |-> <<"U+16E51">>], [ch |-> "U+16E72", to |-> <<"U+16E52">>],
     [ch |-> "U+16E73", to |-> <<"U+16E53">>], [ch |-> "U+16E74", to |-> <<"U+16E54">>], [ch |-> "U+16E75", to |-> <<"U+16E55">>],
     [ch |-> "U+16E76", to |-> <<"U+16E56">>], [ch |-> "U+16E77", to |-> <<"U+16E57">>], [ch |-> "U+16E78", to |-> <<"U+16E58">>],
     [ch |-> "U+16E79", to |-> <<"U+16E59">>], [ch |-> "U+16E7A", to |-> <<"U+16E5A">>], [ch |-> "U+16E7B", to |-> <<"U+16E5B">>],
     [ch |-> "U+16E7C", to |-> <<"U+16E5C">>], [ch |-> "U+16E7D", to |-> <<"U+16E5D">>], [ch |-> "U+16E7E", to |-> <<"U+16E5E">>],
     [ch |-> "U+16E7F", to |-> <<"U+16E5F">>], [ch |-> "U+1E922", to |-> <<"U+1E900">>], [ch |-> "U+1E923", to |-> <<"U+1E901">>],
     [ch |-> "U+1E924", to |-> <<"U+1E902">>], [ch |-> "U+1E925", to |-> <<"U+1E903">>], [ch |-> "U+1E926", to |-> <<"U+1E904">>],
     [ch |-> "U+1E927", to |-> <<"U+1E905">>], [ch |-> "U+1E928", to |-> <<"U+1E906">>], [ch |-> "U+1E929", to |-> <<"U+1E907">>],
     [ch |-> "U+1E92A", to |-> <<"U+1E908">>], [ch |-> "U+1E92B", to |-> <<"U+1E909">>], [ch |-> "U+1E92C", to |-> <<"U+1E90A">>],
     [ch |-> "U+1E92D", to |-> <<"U+1E90B">>], [ch |-> "U+1E92E", to |-> <<"U+1E90C">>], [ch |-> "U+1E92F", to |-> <<"U+1E90D">>],
     [ch |-> "U+1E930", to |-> <<"U+1E90E">>], [ch |-> "U+1E931", to |-> <<"U+1E90F">>], [ch |-> "U+1E932", to |-> <<"U+1E910">>],
     [ch |-> "U+1E933", to |-> <<"U+1E911">>], [ch |-> "U+1E934", to |-> <<"U+1E912">>], [ch |-> "U+1E935", to |-> <<"U+1E913">>],
     [ch |-> "U+1E936", to |-> <<"U+1E914">>], [ch |-> "U+1E937", to |-> <<"U+1E915">>], [ch |-> "U+1E938", to |-> <<"U+1E916">>],
     [ch |-> "U+1E939", to |-> <<"U+1E917">>], [ch |-> "U+1E93A", to |-> <<"U+1E918">>], [ch |-> "U+1E93B", to |-> <<"U+1E919">>],
     [ch |-> "U+1E93C", to |-> <<"U+1E91A">>], [ch |-> "U+1E93D", to |-> <<"U+1E91B">>], [ch |-> "U+1E93E", to |-> <<"U+1E91C">>],
     [ch |-> "U+1E93F", to |-> <<"U+1E91D">>], [ch |-> "U+1E940", to |-> <<"U+1E91E">>], [ch |-> "U+1E941", to |-> <<"U+1E91F">>],
     [ch |-> "U+1E942", to |-> <<"U+1E920">>], [ch |-> "U+1E943", to |-> <<"U+1E921">>] >>
WordRanges ==
    << <<170, 170>>, <<178, 179>>, <<181, 181>>, <<185, 186>>, <<188, 190>>, <<192, 214>>,
     <<216, 246>>, <<248, 705>>, <<710, 721>>, <<736, 740>>, <<748, 748>>, <<750, 750>>,
     <<880, 884>>, <<886, 887>>, <<890, 893>>, <<895, 895>>, <<902, 902>>, <<904, 906>>,
     <<908, 908>>, <<910, 929>>, <<931, 1013>>, <<1015, 1153>>, <<1162, 1327>>, <<1329, 1366>>,
     <<1369, 1369>>, <<1376, 1416>>, <<1488, 1514>>, <<1519, 1522>>, <<1568, 1610>>, <<1632, 1641>>,
     <<1646, 1647>>, <<1649, 1747>>, <<1749, 1749>>, <<1765, 1766>>, <<1774, 1788>>, <<1791, 1791>>,
     <<1808, 1808>>, <<1810, 1839>>, <<1869, 1957>>, <<1969, 1969>>, <<1984, 2026>>, <<2036, 2037>>,
     <<2042, 2042>>, <<2048, 2069>>, <<2074, 2074>>, <<2084, 2084>>, <<2088, 2088>>, <<2112, 2136>>,
     <<2144, 2154>>, <<2160, 2183>>, <<2185, 2190>>, <<2208, 2249>>, <<2308, 2361>>, <<2365, 2365>>,
     <<2384, 2384>>, <<2392, 2401>>, <<2406, 2415>>, <<2417, 2432>>, <<2437, 2444>>, <<2447, 2448>>,
     <<2451, 2472>>, <<2474, 2480>>, <<2482, 2482>>, <<2486, 2489>>, <<2493, 2493>>, <<2510, 2510>>,
     <<2524, 2525>>, <<2527, 2529>>, <<2534, 2545>>, <<2548, 2553>>, <<2556, 2556>>, <<2565, 2570>>,
     <<2575, 2576>>, <<2579, 2600>>, <<2602, 2608>>, <<2610, 2611>>, <<2613, 2614>>, <<2616, 2617>>,
     <<2649, 2652>>, <<2654, 2654>>, <<2662, 2671>>, <<2674, 2676>>, <<2693, 2701>>, <<2703, 2705>>,
     <<2707, 2728>>, <<2730, 2736>>, <<2738, 2739>>, <<2741, 2745>>, <<2749, 2749>>, <<2768, 2768>>,
     <<2784, 2785>>, <<2790, 2799>>, <<2809, 2809>>, <<2821, 2828>>, <<2831, 2832>>, <<2835, 2856>>,
     <<2858, 2864>>, <<2866, 2867>>, <<2869, 2873>>, <<2877, 2877>>, <<2908, 2909>>, <<2911, 2913>>,
     <<2918, 2927>>, <<2929, 2935>>, <<2947, 2947>>, <<2949, 2954>>, <<2958, 2960>>, <<2962, 2965>>,
     <<2969, 2970>>, <<2972, 2972>>, <<2974, 2975>>, <<2979, 2980>>, <<2984, 2986>>, <<2990, 3001>>,
     <<3024, 3024>>, <<3046, 3058>>, <<3077, 3084>>, <<3086, 3088>>, <<3090, 3112>>, <<3114, 3129>>,
     <<3133, 3133>>, <<3160, 3162>>, <<3165, 3165>>, <<3168, 3169>>, <<3174, 3183>>, <<3192, 3198>>,
     <<3200, 3200>>, <<3205, 3212>>, <<3214, 3216>>, <<3218, 3240>>, <<3242, 3251>>, <<3253, 3257>>,
     <<3261, 3261>>, <<3293, 3294>>, <<3296, 3297>>, <<3302, 3311>>, <<3313, 3314>>, <<3332, 3340>>,
     <<3342, 3344>>, <<3346, 3386>>, <<3389, 3389>>, <<3406, 3406>>, <<3412, 3414>>, <<3416, 3425>>,
     <<3430, 3448>>, <<3450, 3455>>, <<3461, 3478>>, <<3482, 3505>>, <<3507, 3515>>, <<3517, 3517>>,
     <<3520, 3526>>, <<3558, 3567>>, <<3585, 3632>>, <<3634, 3635>>, <<3648, 3654>>, <<3664, 3673>>,
     <<3713, 3714>>, <<3716, 3716>>, <<3718, 3722>>, <<3724, 3747>>, <<3749, 3749>>, <<3751, 3760>>,
     <<3762, 3763>>, <<3773, 3773>>, <<3776, 3780>>, <<3782, 3782>>, <<3792, 3801>>, <<3804, 3807>>,
     <<3840, 3840>>, <<3872, 3891>>, <<3904, 3911>>, <<3913, 3948>>, <<3976, 3980>>, <<4096, 4138>>,
     <<4159, 4169>>, <<4176, 4181>>, <<4186, 4189>>, <<4193, 4193>>, <<4197, 4198>>, <<4206, 4208>>,
     <<4213, 4225>>, <<4238, 4238>>, <<4240, 4249>>, <<4256, 4293>>, <<4295, 4295>>, <<4301, 4301>>,
     <<4304, 4346>>, <<4348, 4680>>, <<4682, 4685>>, <<4688, 4694>>, <<4696, 4696>>, <<4698, 4701>>,
     <<4704, 4744>>, <<4746, 4749>>, <<4752, 4784>>, <<4786, 4789>>, <<4792, 4798>>, <<4800, 4800>>,
     <<4802, 4805>>, <<4808, 4822>>, <<4824, 4880>>, <<4882, 4885>>, <<4888, 4954>>, <<4969, 4988>>,
     <<4992, 5007>>, <<5024, 5109>>, <<5112, 5117>>, <<5121, 5740>>, <<5743, 5759>>, <<5761, 5786>>,
     <<5792, 5866>>, <<5870, 5880>>, <<5888, 5905>>, <<5919, 5937>>, <<5952, 5969>>, <<5984, 5996>>,
     <<5998, 6000>>, <<6016, 6067>>, <<6103, 6103>>, <<6108, 6108>>, <<6112, 6121>>, <<6128, 6137>>,
     <<6160, 6169>>, <<6176, 6264>>, <<6272, 6276>>, <<6279, 6312>>, <<6314, 6314>>, <<6320, 6389>>,
     <<6400, 6430>>, <<6470, 6509>>, <<6512, 6516>>, <<6528, 6571>>, <<6576, 6601>>, <<6608, 6618>>,
     <<6656, 6678>>, <<6688, 6740>>, <<6784, 6793>>, <<6800, 6809>>, <<6823, 6823>>, <<6917, 6963>>,
     <<6981, 6988>>, <<6992, 7001>>, <<7043, 7072>>, <<7086, 7141>>, <<7168, 7203>>, <<7232, 7241>>,
     <<7245, 7293>>, <<7296, 7304>>, <<7312, 7354>>, <<7357, 7359>>, <<7401, 7404>>, <<7406, 7411>>,
     <<7413, 7414>>, <<7418, 7418>>, <<7424, 7615>>, <<7680, 7957>>, <<7960, 7965>>, <<7968, 8005>>,
     <<8008, 8013>>, <<8016, 8023>>, <<8025, 8025>>, <<8027, 8027>>, <<8029, 8029>>, <<8031, 8061>>,
     <<8064, 8116>>, <<8118, 8124>>, <<8126, 8126>>, <<8130, 8132>>, <<8134, 8140>>, <<8144, 8147>>,
     <<8150, 8155>>, <<8160, 8172>>, <<8178, 8180>>, <<8182, 8188>>, <<8304, 8305>>, <<8308, 8313>>,
     <<8319, 8329>>, <<8336, 8348>>, <<8450, 8450>>, <<8455, 8455>>, <<8458, 8467>>, <<8469, 8469>>,
     <<8473, 8477>>, <<8484, 8484>>, <<8486, 8486>>, <<8488, 8488>>, <<8490, 8493>>, <<8495, 8505>>,
     <<8508, 8511>>, <<8517, 8521>>, <<8526, 8526>>, <<8528, 8585>>, <<9312, 9371>>, <<9450, 9471>>,
     <<10102, 10131>>, <<11264, 11492>>, <<11499, 11502>>, <<11506, 11507>>, <<11517, 11517>>, <<11520, 11557>>,
     <<11559, 11559>>, <<11565, 11565>>, <<11568, 11623>>, <<11631, 11631>>, <<11648, 11670>>, <<11680, 11686>>,
     <<11688, 11694>>, <<11696, 11702>>, <<11704, 11710>>, <<11712, 11718>>, <<11720, 11726>>, <<11728, 11734>>,
     <<11736, 11742>>, <<11823, 11823>>, <<12293, 12295>>, <<12321, 12329>>, <<12337, 12341>>, <<12344, 12348>>,
     <<12353, 12438>>, <<12445, 12447>>, <<12449, 12538>>, <<12540, 12543>>, <<12549, 12591>>, <<12593, 12686>>,
     <<12690, 12693>>, <<12704, 12735>>, <<12784, 12799>>, <<12832, 12841>>, <<12872, 12879>>, <<12881, 12895>>,
     <<12928, 12937>>, <<12977, 12991>>, <<13312, 19903>>, <<19968, 42124>>, <<42192, 42237>>, <<42240, 42508>>,
     <<42512, 42539>>, <<42560, 42606>>, <<42623, 42653>>, <<42656, 42735>>, <<42775, 42783>>, <<42786, 42888>>,
     <<42891, 42954>>, <<42960, 42961>>, <<42963, 42963>>, <<42965, 42969>>, <<42994, 43009>>, <<43011, 43013>>,
     <<43015, 43018>>, <<43020, 43042>>, <<43056, 43061>>, <<43072, 43123>>, <<43138, 43187>>, <<43216, 43225>>,
     <<43250, 43255>>, <<43259, 43259>>, <<43261, 43262>>, <<43264, 43301>>, <<43312, 43334>>, <<43360, 43388>>,
     <<43396, 43442>>, <<43471, 43481>>, <<43488, 43492>>, <<43494, 43518>>, <<43520, 43560>>, <<43584, 43586>>,
     <<43588, 43595>>, <<43600, 43609>>, <<43616, 43638>>, <<43642, 43642>>, <<43646, 43695>>, <<43697, 43697>>,
     <<43701, 43702>>, <<43705, 43709>>, <<43712, 43712>>, <<43714, 43714>>, <<43739, 43741>>, <<43744, 43754>>,
     <<43762, 43764>>, <<43777, 43782>>, <<43785, 43790>>, <<43793, 43798>>, <<43808, 43814>>, <<43816, 43822>>,
     <<43824, 43866>>, <<43868, 43881>>, <<43888, 44002>>, <<44016, 44025>>, <<44032, 55203>>, <<55216, 55238>>,
     <<55243, 55291>>, <<63744, 64109>>, <<64112, 64217>>, <<64256, 64262>>, <<64275, 64279>>, <<64285, 64285>>,
     <<64287, 64296>>, <<64298, 64310>>, <<64312, 64316>>, <<64318, 64318>>, <<64320, 64321>>, <<64323, 64324>>,
     <<64326, 64433>>, <<64467, 64829>>, <<64848, 64911>>, <<64914, 64967>>, <<65008, 65019>>, <<65136, 65140>>,
     <<65142, 65276>>, <<65296, 65305>>, <<65313, 65338>>, <<65345, 65370>>, <<65382, 65470>>, <<65474, 65479>>,
     <<65482, 65487>>, <<65490, 65495>>, <<65498, 65500>>, <<65536, 65547>>, <<65549, 65574>>, <<65576, 65594>>,
     <<65596, 65597>>, <<65599, 65613>>, <<65616, 65629>>, <<65664, 65786>>, <<65799, 65843>>, <<65856, 65912>>,
     <<65930, 65931>>, <<66176, 66204>>, <<66208, 66256>>, <<66273, 66299>>, <<66304, 66339>>, <<66349, 66378>>,
     <<66384, 66421>>, <<66432, 66461>>, <<66464, 66499>>, <<66504, 66511>>, <<66513, 66517>>, <<66560, 66717>>,
     <<66720, 66729>>, <<66736, 66771>>, <<66776, 66811>>, <<66816, 66855>>, <<66864, 66915>>, <<66928, 66938>>,
     <<66940, 66954>>, <<66956, 66962>>, <<66964, 66965>>, <<66967, 66977>>, <<66979, 66993>>, <<66995, 67001>>,
     <<67003, 67004>>, <<67072, 67382>>, <<67392, 67413>>, <<67424, 67431>>, <<67456, 67461>>, <<67463, 67504>>,
     <<67506, 67514>>, <<67584, 67589>>, <<67592, 67592>>, <<67594, 67637>>, <<67639, 67640>>, <<67644, 67644>>,
     <<67647, 67669>>, <<67672, 67702>>, <<67705, 67742>>, <<67751, 67759>>, <<67808, 67826>>, <<67828, 67829>>,
     <<67835, 67867>>, <<67872, 67897>>, <<67968, 68023>>, <<68028, 68047>>, <<68050, 68096>>, <<68112, 68115>>,
     <<68117, 68119>>, <<68121, 68149>>, <<68160, 68168>>, <<68192, 68222>>, <<68224, 68255>>, <<68288, 68295>>,
     <<68297, 68324>>, <<68331, 68335>>, <<68352, 68405>>, <<68416, 68437>>, <<68440, 68466>>, <<68472, 68497>>,
     <<68521, 68527>>, <<68608, 68680>>, <<68736, 68786>>, <<68800, 68850>>, <<68858, 68899>>, <<68912, 68921>>,
     <<69216, 69246>>, <<69248, 69289>>, <<69296, 69297>>, <<69376, 69415>>, <<69424, 69445>>, <<69457, 69460>>,
     <<69488, 69505>>, <<69552, 69579>>, <<69600, 69622>>, <<69635, 69687>>, <<69714, 69743>>, <<69745, 69746>>,
     <<69749, 69749>>, <<69763, 69807>>, <<69840, 69864>>, <<69872, 69881>>, <<69891, 69926>>, <<69942, 69951>>,
     <<69956, 69956>>, <<69959, 69959>>, <<69968, 70002>>, <<70006, 70006>>, <<70019, 70066>>, <<70081, 70084>>,
     <<70096, 70106>>, <<70108, 70108>>, <<70113, 70132>>, <<70144, 70161>>, <<70163, 70187>>, <<70272, 70278>>,
     <<70280, 70280>>, <<70282, 70285>>, <<70287, 70301>>, <<70303, 70312>>, <<70320, 70366>>, <<70384, 70393>>,
     <<70405, 70412>>, <<70415, 70416>>, <<70419, 70440>>, <<70442, 70448>>, <<70450, 70451>>, <<70453, 70457>>,
     <<70461, 70461>>, <<70480, 70480>>, <<70493, 70497>>, <<70656, 70708>>, <<70727, 70730>>, <<70736, 70745>>,
     <<70751, 70753>>, <<70784, 70831>>, <<70852, 70853>>, <<70855, 70855>>, <<70864, 70873>>, <<71040, 71086>>,
     <<71128, 71131>>, <<71168, 71215>>, <<71236, 71236>>, <<71248, 71257>>, <<71296, 71338>>, <<71352, 71352>>,
     <<71360, 71369>>, <<71424, 71450>>, <<71472, 71483>>, <<71488, 71494>>, <<71680, 71723>>, <<71840, 71922>>,
     <<71935, 71942>>, <<71945, 71945>>, <<71948, 71955>>, <<71957, 71958>>, <<71960, 71983>>, <<71999, 71999>>,
     <<72001, 72001>>, <<72016, 72025>>, <<72096, 72103>>, <<72106, 72144>>, <<72161, 72161>>, <<72163, 72163>>,
     <<72192, 72192>>, <<72203, 72242>>, <<72250, 72250>>, <<72272, 72272>>, <<72284, 72329>>, <<72349, 72349>>,
     <<72368, 72440>>, <<72704, 72712>>, <<72714, 72750>>, <<72768, 72768>>, <<72784, 72812>>, <<72818, 72847>>,
     <<72960, 72966>>, <<72968, 72969>>, <<72971, 73008>>, <<73030, 73030>>, <<73040, 73049>>, <<73056, 73061>>,
     <<73063, 73064>>, <<73066, 73097>>, <<73112, 73112>>, <<73120, 73129>>, <<73440, 73458>>, <<73648, 73648>>,
     <<73664, 73684>>, <<73728, 74649>>, <<74752, 74862>>, <<74880, 75075>>, <<77712, 77808>>, <<77824, 78894>>,
     <<82944, 83526>>, <<92160, 92728>>, <<92736, 92766>>, <<92768, 92777>>, <<92784, 92862>>, <<92864, 92873>>,
     <<92880, 92909>>, <<92928, 92975>>, <<92992, 92995>>, <<93008, 93017>>, <<93019, 93025>>, <<93027, 93047>>,
     <<93053, 93071>>, <<93760, 93846>>, <<93952, 94026>>, <<94032, 94032>>, <<94099, 94111>>, <<94176, 94177>>,
     <<94179, 94179>>, <<94208, 100343>>, <<100352, 101589>>, <<101632, 101640>>, <<110576, 110579>>, <<110581, 110587>>,
     <<110589, 110590>>, <<110592, 110882>>, <<110928, 110930>>, <<110948, 110951>>, <<110960, 111355>>, <<113664, 113770>>,
     <<113776, 113788>>, <<113792, 113800>>, <<113808, 113817>>, <<119520, 119539>>, <<119648, 119672>>, <<119808, 119892>>,
     <<119894, 119964>>, <<119966, 119967>>, <<119970, 119970>>, <<119973, 119974>>, <<119977, 119980>>, <<119982, 119993>>,
     <<119995, 119995>>, <<119997, 120003>>, <<120005, 120069>>, <<120071, 120074>>, <<120077, 120084>>, <<120086, 120092>>,
     <<120094, 120121>>, <<120123, 120126>>, <<120128, 120132>>, <<120134, 120134>>, <<120138, 120144>>, <<120146, 120485>>,
     <<120488, 120512>>, <<120514, 120538>>, <<120540, 120570>>, <<120572, 120596>>, <<120598, 120628>>, <<120630, 120654>>,
     <<120656, 120686>>, <<120688, 120712>>, <<120714, 120744>>, <<120746, 120770>>, <<120772, 120779>>, <<120782, 120831>>,
     <<122624, 122654>>, <<123136, 123180>>, <<123191, 123197>>, <<123200, 123209>>, <<123214, 123214>>, <<123536, 123565>>,
     <<123584, 123627>>, <<123632, 123641>>, <<124896, 124902>>, <<124904, 124907>>, <<124909, 124910>>, <<124912, 124926>>,
     <<124928, 125124>>, <<125127, 125135>>, <<125184, 125251>>, <<125259, 125259>>, <<125264, 125273>>, <<126065, 126123>>,
     <<126125, 126127>>, <<126129, 126132>>, <<126209, 126253>>, <<126255, 126269>>, <<126464, 126467>>, <<126469, 126495>>,
     <<126497, 126498>>, <<126500, 126500>>, <<126503, 126503>>, <<126505, 126514>>, <<126516, 126519>>, <<126521, 126521>>,
     <<126523, 126523>>, <<126530, 126530>>, <<126535, 126535>>, <<126537, 126537>>, <<126539, 126539>>, <<126541, 126543>>,
     <<126545, 126546>>, <<126548, 126548>>, <<126551, 126551>>, <<126553, 126553>>, <<126555, 126555>>, <<126557, 126557>>,
     <<126559, 126559>>, <<126561, 126562>>, <<126564, 126564>>, <<126567, 126570>>, <<126572, 126578>>, <<126580, 126583>>,
     <<126585, 126588>>, <<126590, 126590>>, <<126592, 126601>>, <<126603, 126619>>, <<126625, 126627>>, <<126629, 126633>>,
     <<126635, 126651>>, <<127232, 127244>>, <<130032, 130041>>, <<131072, 173791>>, <<173824, 177976>>, <<177984, 178205>>,
     <<178208, 183969>>, <<183984, 191456>>, <<194560, 195101>>, <<196608, 201546>> >>
\* Cased characters (Lowercase, Uppercase or Lt)
CasedRanges ==
    << <<170, 170>>, <<181, 181>>, <<186, 186>>, <<192, 214>>, <<216, 246>>, <<248, 442>>,
     <<444, 447>>, <<452, 659>>, <<661, 696>>, <<704, 705>>, <<736, 740>>, <<837, 837>>,
     <<880, 883>>, <<886, 887>>, <<890, 893>>, <<895, 895>>, <<902, 902>>, <<904, 906>>,
     <<908, 908>>, <<910, 929>>, <<931, 1013>>, <<1015, 1153>>, <<1162, 1327>>, <<1329, 1366>>,
     <<1376, 1416>>, <<4256, 4293>>, <<4295, 4295>>, <<4301, 4301>>, <<4304, 4346>>, <<4349, 4351>>,
     <<5024, 5109>>, <<5112, 5117>>, <<7296, 7304>>, <<7312, 7354>>, <<7357, 7359>>, <<7424, 7615>>,
     <<7680, 7957>>, <<7960, 7965>>, <<7968, 8005>>, <<8008, 8013>>, <<8016, 8023>>, <<8025, 8025>>,
     <<8027, 8027>>, <<8029, 8029>>, <<8031, 8061>>, <<8064, 8116>>, <<8118, 8124>>, <<8126, 8126>>,
     <<8130, 8132>>, <<8134, 8140>>, <<8144, 8147>>, <<8150, 8155>>, <<8160, 8172>>, <<8178, 8180>>,
     <<8182, 8188>>, <<8305, 8305>>, <<8319, 8319>>, <<8336, 8348>>, <<8450, 8450>>, <<8455, 8455>>,
     <<8458, 8467>>, <<8469, 8469>>, <<8473, 8477>>, <<8484, 8484>>, <<8486, 8486>>, <<8488, 8488>>,
     <<8490, 8493>>, <<8495, 8500>>, <<8505, 8505>>, <<8508, 8511>>, <<8517, 8521>>, <<8526, 8526>>,
     <<8544, 8575>>, <<8579, 8580>>, <<9398, 9449>>, <<11264, 11492>>, <<11499, 11502>>, <<11506, 11507>>,
     <<11520, 11557>>, <<11559, 11559>>, <<11565, 11565>>, <<42560, 42605>>, <<42624, 42653>>, <<42786, 42887>>,
     <<42891, 42894>>, <<42896, 42954>>, <<42960, 42961>>, <<42963, 42963>>, <<42965, 42969>>, <<42997, 42998>>,
     <<43000, 43002>>, <<43824, 43866>>, <<43868, 43880>>, <<43888, 43967>>, <<64256, 64262>>, <<64275, 64279>>,
     <<65313, 65338>>, <<65345, 65370>>, <<66560, 66639>>, <<66736, 66771>>, <<66776, 66811>>, <<66928, 66938>>,
     <<66940, 66954>>, <<66956, 66962>>, <<66964, 66965>>, <<66967, 66977>>, <<66979, 66993>>, <<66995, 67001>>,
     <<67003, 67004>>, <<67456, 67456>>, <<67459, 67461>>, <<67463, 67504>>, <<67506, 67514>>, <<68736, 68786>>,
     <<68800, 68850>>, <<71840, 71903>>, <<93760, 93823>>, <<119808, 119892>>, <<119894, 119964>>, <<119966, 119967>>,
     <<119970, 119970>>, <<119973, 119974>>, <<119977, 119980>>, <<119982, 119993>>, <<119995, 119995>>, <<119997, 120003>>,
     <<120005, 120069>>, <<120071, 120074>>, <<120077, 120084>>, <<120086, 120092>>, <<120094, 120121>>, <<120123, 120126>>,
     <<120128, 120132>>, <<120134, 120134>>, <<120138, 120144>>, <<120146, 120485>>, <<120488, 120512>>, <<120514, 120538>>,
     <<120540, 120570>>, <<120572, 120596>>, <<120598, 120628>>, <<120630, 120654>>, <<120656, 120686>>, <<120688, 120712>>,
     <<120714, 120744>>, <<120746, 120770>>, <<120772, 120779>>, <<122624, 122633>>, <<122635, 122654>>, <<125184, 125251>>,
     <<127280, 127305>>, <<127312, 127337>>, <<127344, 127369>> >>
CaseIgnorableRanges ==
    << <<96, 96>>, <<168, 168>>, <<173, 173>>, <<175, 175>>, <<180, 180>>, <<183, 184>>,
     <<688, 879>>, <<884, 885>>, <<890, 890>>, <<900, 901>>, <<903, 903>>, <<1155, 1161>>,
     <<1369, 1369>>, <<1375, 1375>>, <<1425, 1469>>, <<1471, 1471>>, <<1473, 1474>>, <<1476, 1477>>,
     <<1479, 1479>>, <<1524, 1524>>, <<1536, 1541>>, <<1552, 1562>>, <<1564, 1564>>, <<1600, 1600>>,
     <<1611, 1631>>, <<1648, 1648>>, <<1750, 1757>>, <<1759, 1768>>, <<1770, 1773>>, <<1807, 1807>>,
     <<1809, 1809>>, <<1840, 1866>>, <<1958, 1968>>, <<2027, 2037>>, <<2042, 2042>>, <<2045, 2045>>,
     <<2070, 2093>>, <<2137, 2139>>, <<2184, 2184>>, <<2192, 2193>>, <<2200, 2207>>, <<2249, 2306>>,
     <<2362, 2362>>, <<2364, 2364>>, <<2369, 2376>>, <<2381, 2381>>, <<2385, 2391>>, <<2402, 2403>>,
     <<2417, 2417>>, <<2433, 2433>>, <<2492, 2492>>, <<2497, 2500>>, <<2509, 2509>>, <<2530, 2531>>,
     <<2558, 2558>>, <<2561, 2562>>, <<2620, 2620>>, <<2625, 2626>>, <<2631, 2632>>, <<2635, 2637>>,
     <<2641, 2641>>, <<2672, 2673>>, <<2677, 2677>>, <<2689, 2690>>, <<2748, 2748>>, <<2753, 2757>>,
     <<2759, 2760>>, <<2765, 2765>>, <<2786, 2787>>, <<2810, 2815>>, <<2817, 2817>>, <<2876, 2876>>,
     <<2879, 2879>>, <<2881, 2884>>, <<2893, 2893>>, <<2901, 2902>>, <<2914, 2915>>, <<2946, 2946>>,
     <<3008, 3008>>, <<3021, 3021>>, <<3072, 3072>>, <<3076, 3076>>, <<3132, 3132>>, <<3134, 3136>>,
     <<3142, 3144>>, <<3146, 3149>>, <<3157, 3158>>, <<3170, 3171>>, <<3201, 3201>>, <<3260, 3260>>,
     <<3263, 3263>>, <<3270, 3270>>, <<3276, 3277>>, <<3298, 3299>>, <<3328, 3329>>, <<3387, 3388>>,
     <<3393, 3396>>, <<3405, 3405>>, <<3426, 3427>>, <<3457, 3457>>, <<3530, 3530>>, <<3538, 3540>>,
     <<3542, 3542>>, <<3633, 3633>>, <<3636, 3642>>, <<3654, 3662>>, <<3761, 3761>>, <<3764, 3772>>,
     <<3782, 3782>>, <<3784, 3789>>, <<3864, 3865>>, <<3893, 3893>>, <<3895, 3895>>, <<3897, 3897>>,
     <<3953, 3966>>, <<3968, 3972>>, <<3974, 3975>>, <<3981, 3991>>, <<3993, 4028>>, <<4038, 4038>>,
     <<4141, 4144>>, <<4146, 4151>>, <<4153, 4154>>, <<4157, 4158>>, <<4184, 4185>>, <<4190, 4192>>,
     <<4209, 4212>>, <<4226, 4226>>, <<4229, 4230>>, <<4237, 4237>>, <<4253, 4253>>, <<4348, 4348>>,
     <<4957, 4959>>, <<5906, 5908>>, <<5938, 5939>>, <<5970, 5971>>, <<6002, 6003>>, <<6068, 6069>>,
     <<6071, 6077>>, <<6086, 6086>>, <<6089, 6099>>, <<6103, 6103>>, <<6109, 6109>>, <<6155, 6159>>,
     <<6211, 6211>>, <<6277, 6278>>, <<6313, 6313>>, <<6432, 6434>>, <<6439, 6440>>, <<6450, 6450>>,
     <<6457, 6459>>, <<6679, 6680>>, <<6683, 6683>>, <<6742, 6742>>, <<6744, 6750>>, <<6752, 6752>>,
     <<6754, 6754>>, <<6757, 6764>>, <<6771, 6780>>, <<6783, 6783>>, <<6823, 6823>>, <<6832, 6862>>,
     <<6912, 6915>>, <<6964, 6964>>, <<6966, 6970>>, <<6972, 6972>>, <<6978, 6978>>, <<7019, 7027>>,
     <<7040, 7041>>, <<7074, 7077>>, <<7080, 7081>>, <<7083, 7085>>, <<7142, 7142>>, <<7144, 7145>>,
     <<7149, 7149>>, <<7151, 7153>>, <<7212, 7219>>, <<7222, 7223>>, <<7288, 7293>>, <<7376, 7378>>,
     <<7380, 7392>>, <<7394, 7400>>, <<7405, 7405>>, <<7412, 7412>>, <<7416, 7417>>, <<7468, 7530>>,
     <<7544, 7544>>, <<7579, 7679>>, <<8125, 8125>>, <<8127, 8129>>, <<8141, 8143>>, <<8157, 8159>>,
     <<8173, 8175>>, <<8189, 8190>>, <<8203, 8207>>, <<8216, 8217>>, <<8228, 8228>>, <<8231, 8231>>,
     <<8234, 8238>>, <<8288, 8292>>, <<8294, 8303>>, <<8305, 8305>>, <<8319, 8319>>, <<8336, 8348>>,
     <<8400, 8432>>, <<11388, 11389>>, <<11503, 11505>>, <<11631, 11631>>, <<11647, 11647>>, <<11744, 11775>>,
     <<11823, 11823>>, <<12293, 12293>>, <<12330, 12333>>, <<12337, 12341>>, <<12347, 12347>>, <<12441, 12446>>,
     <<12540, 12542>>, <<40981, 40981>>, <<42232, 42237>>, <<42508, 42508>>, <<42607, 42610>>, <<42612, 42621>>,
     <<42623, 42623>>, <<42652, 42655>>, <<42736, 42737>>, <<42752, 42785>>, <<42864, 42864>>, <<42888, 42890>>,
     <<42994, 42996>>, <<43000, 43001>>, <<43010, 43010>>, <<43014, 43014>>, <<43019, 43019>>, <<43045, 43046>>,
     <<43052, 43052>>, <<43204, 43205>>, <<43232, 43249>>, <<43263, 43263>>, <<43302, 43309>>, <<43335, 43345>>,
     <<43392, 43394>>, <<43443, 43443>>, <<43446, 43449>>, <<43452, 43453>>, <<43471, 43471>>, <<43493, 43494>>,
     <<43561, 43566>>, <<43569, 43570>>, <<43573, 43574>>, <<43587, 43587>>, <<43596, 43596>>, <<43632, 43632>>,
     <<43644, 43644>>, <<43696, 43696>>, <<43698, 43700>>, <<43703, 43704>>, <<43710, 43711>>, <<43713, 43713>>,
     <<43741, 43741>>, <<43756, 43757>>, <<43763, 43764>>, <<43766, 43766>>, <<43867, 43871>>, <<43881, 43883>>,
     <<44005, 44005>>, <<44008, 44008>>, <<44013, 44013>>, <<64286, 64286>>, <<64434, 64450>>, <<65024, 65039>>,
     <<65043, 65043>>, <<65056, 65071>>, <<65106, 65106>>, <<65109, 65109>>, <<65279, 65279>>, <<65287, 65287>>,
     <<65294, 65294>>, <<65306, 65306>>, <<65342, 65342>>, <<65344, 65344>>, <<65392, 65392>>, <<65438, 65439>>,
     <<65507, 65507>>, <<65529, 65531>>, <<66045, 66045>>, <<66272, 66272>>, <<66422, 66426>>, <<67456, 67461>>,
     <<67463, 67504>>, <<67506, 67514>>, <<68097, 68099>>, <<68101, 68102>>, <<68108, 68111>>, <<68152, 68154>>,
     <<68159, 68159>>, <<68325, 68326>>, <<68900, 68903>>, <<69291, 69292>>, <<69446, 69456>>, <<69506, 69509>>,
     <<69633, 69633>>, <<69688, 69702>>, <<69744, 69744>>, <<69747, 69748>>, <<69759, 69761>>, <<69811, 69814>>,
     <<69817, 69818>>, <<69821, 69821>>, <<69826, 69826>>, <<69837, 69837>>, <<69888, 69890>>, <<69927, 69931>>,
     <<69933, 69940>>, <<70003, 70003>>, <<70016, 70017>>, <<70070, 70078>>, <<70089, 70092>>, <<70095, 70095>>,
     <<70191, 70193>>, <<70196, 70196>>, <<70198, 70199>>, <<70206, 70206>>, <<70367, 70367>>, <<70371, 70378>>,
     <<70400, 70401>>, <<70459, 70460>>, <<70464, 70464>>, <<70502, 70508>>, <<70512, 70516>>, <<70712, 70719>>,
     <<70722, 70724>>, <<70726, 70726>>, <<70750, 70750>>, <<70835, 70840>>, <<70842, 70842>>, <<70847, 70848>>,
     <<70850, 70851>>, <<71090, 71093>>, <<71100, 71101>>, <<71103, 71104>>, <<71132, 71133>>, <<71219, 71226>>,
     <<71229, 71229>>, <<71231, 71232>>, <<71339, 71339>>, <<71341, 71341>>, <<71344, 71349>>, <<71351, 71351>>,
     <<71453, 71455>>, <<71458, 71461>>, <<71463, 71467>>, <<71727, 71735>>, <<71737, 71738>>, <<71995, 71996>>,
     <<71998, 71998>>, <<72003, 72003>>, <<72148, 72151>>, <<72154, 72155>>, <<72160, 72160>>, <<72193, 72202>>,
     <<72243, 72248>>, <<72251, 72254>>, <<72263, 72263>>, <<72273, 72278>>, <<72281, 72283>>, <<72330, 72342>>,
     <<72344, 72345>>, <<72752, 72758>>, <<72760, 72765>>, <<72767, 72767>>, <<72850, 72871>>, <<72874, 72880>>,
     <<72882, 72883>>, <<72885, 72886>>, <<73009, 73014>>, <<73018, 73018>>, <<73020, 73021>>, <<73023, 73029>>,
     <<73031, 73031>>, <<73104, 73105>>, <<73109, 73109>>, <<73111, 73111>>, <<73459, 73460>>, <<78896, 78904>>,
     <<92912, 92916>>, <<92976, 92982>>, <<92992, 92995>>, <<94031, 94031>>, <<94095, 94111>>, <<94176, 94177>>,
     <<94179, 94180>>, <<110576, 110579>>, <<110581, 110587>>, <<110589, 110590>>, <<113821, 113822>>, <<113824, 113827>>,
     <<118528, 118573>>, <<118576, 118598>>, <<119143, 119145>>, <<119155, 119170>>, <<119173, 119179>>, <<119210, 119213>>,
     <<119362, 119364>>, <<121344, 121398>>, <<121403, 121452>>, <<121461, 121461>>, <<121476, 121476>>, <<121499, 121503>>,
     <<121505, 121519>>, <<122880, 122886>>, <<122888, 122904>>, <<122907, 122913>>, <<122915, 122916>>, <<122918, 122922>>,
     <<123184, 123197>>, <<123566, 123566>>, <<123628, 123631>>, <<125136, 125142>>, <<125252, 125259>>, <<127995, 127999>>,
     <<917505, 917505>>, <<917536, 917631>>, <<917760, 917999>> >>
LowerKeys == {LowerTable[i].ch : i \in 1..Len(LowerTable)}
LowerMap == [c \in LowerKeys |-> LowerTable[CHOOSE i \in 1..Len(LowerTable) : LowerTable[i].ch = c].to]
UpperKeys == {UpperTable[i].ch : i \in 1..Len(UpperTable)}
UpperMap == [c \in UpperKeys |-> UpperTable[CHOOSE i \in 1..Len(UpperTable) : UpperTable[i].ch = c].to]

HexDigits == "0123456789ABCDEF"
HexVal(d) == CHOOSE i \in 0..15 : SubSeq(HexDigits, i + 1, i + 1) = d
RECURSIVE HexNum(_)
HexNum(s) == IF Len(s) = 0 THEN 0
             ELSE 16 * HexNum(SubSeq(s, 1, Len(s) - 1)) + HexVal(SubSeq(s, Len(s), Len(s)))
\* the code point of a non-ASCII character "U+XXXX"
CodePoint(c) == HexNum(SubSeq(c, 3, Len(c)))
IsAscii(c) == Len(c) = 1 \/ c = "U+0060"
\* n lies in one of the sorted, disjoint ranges R[lo..hi]
RECURSIVE InRangesFrom(_, _, _, _)
InRangesFrom(n, R, lo, hi) ==
    IF lo > hi THEN FALSE
    ELSE LET mid == (lo + hi) \div 2 IN
         IF n < R[mid][1] THEN InRangesFrom(n, R, lo, mid - 1)
         ELSE IF n > R[mid][2] THEN InRangesFrom(n, R, mid + 1, hi)
         ELSE TRUE
InRanges(n, R) == InRangesFrom(n, R, 1, Len(R))
\* (a backquote is named "U+0060")
AsciiCaseIgnorable == {"'", ".", ":", "^", "U+0060"}
IsCaseIgnorable(c) == IF IsAscii(c) THEN c \in AsciiCaseIgnorable
                      ELSE InRanges(CodePoint(c), CaseIgnorableRanges)
IsCased(c) == IF IsAscii(c) THEN c \in UpperLetters \cup LowerLetters
              ELSE InRanges(CodePoint(c), CasedRanges)

\* str.lower / str.upper on one character, as a sequence of characters
LowerChar(c) == IF c \in UpperLetters THEN <<LC[CHOOSE i \in 1..26 : UC[i] = c]>>
                ELSE IF c \in LowerKeys THEN LowerMap[c] ELSE <<c>>
UpperChar(c) == IF c \in LowerLetters THEN <<UC[CHOOSE i \in 1..26 : LC[i] = c]>>
                ELSE IF c \in UpperKeys THEN UpperMap[c] ELSE <<c>>
\* U+03A3 lowers to final sigma U+03C2 after a cased letter (skipping
\* case-ignorables) that is not followed by one
FinalSigma(t, i) ==
    LET before == {j \in 1..(i - 1) : ~IsCaseIgnorable(t[j])}
        after == {j \in (i + 1)..Len(t) : ~IsCaseIgnorable(t[j])}
    IN /\ before # {}
       /\ IsCased(t[CHOOSE j \in before : \A k \in before : k <= j])
       /\ after = {} \/ ~IsCased(t[CHOOSE j \in after : \A k \in after : j <= k])
LowerAt(t, i) == IF t[i] = "U+03A3"
                 THEN IF FinalSigma(t, i) THEN <<"U+03C2">> ELSE <<"U+03C3">>
                 ELSE LowerChar(t[i])
RECURSIVE LowerFrom(_, _)
LowerFrom(t, i) == IF i > Len(t) THEN <<>> ELSE LowerAt(t, i) \o LowerFrom(t, i + 1)
Lower(t) == LowerFrom(t, 1)
RECURSIVE Upper(_)
Upper(t) == IF t = <<>> THEN <<>> ELSE UpperChar(Head(t)) \o Upper(Tail(t))
\* `kw in text` (substring containment)
Contains(t, kw) ==
    \E i \in 1..(Len(t) - Len(kw) + 1) : SubSeq(t, i, i + Len(kw) - 1) = kw

\* BULLISH / BEARISH keyword sets
BULLISH == {<<"m", "o", "o", "n">>, <<"p", "u", "m", "p">>, <<"b", "u", "l", "l", "i", "s", "h">>, <<"b", "u", "y">>, <<"c", "a", "l", "l", "s">>, <<"l", "o", "n", "g">>, <<"s", "q", "u", "e", "e", "z", "e">>, <<"r", "o", "c", "k", "e", "t">>, <<"t", "e", "n", "d", "i", "e", "s">>, <<"d", "i", "a", "m", "o", "n", "d">>,
            <<"U+1F680">>, <<"U+1F4C8">>, <<"U+1F48E">>}
BEARISH == {<<"d", "u", "m", "p">>, <<"c", "r", "a", "s", "h">>, <<"b", "e", "a", "r", "i", "s", "h">>, <<"s", "e", "l", "l">>, <<"p", "u", "t", "s">>, <<"s", "h", "o", "r", "t">>, <<"r", "e", "k", "t">>, <<"r", "u", "g">>,
            <<"U+1F4C9">>, <<"U+1F480">>, <<"U+1F43B">>}

\* round(n / t, 2) in hundredths, t > 0.  Python rounds the double nearest
\* to n/t half-to-even; with t <= 24 a decimal tie only arises for n/t a
\* multiple of 1/8, which the double represents exactly.
Round2(n, t) ==
    LET qq == (100 * n) \div t
        rr == (100 * n) % t
    IN IF 2 * rr > t THEN qq + 1
       ELSE IF 2 * rr < t THEN qq
       ELSE IF qq % 2 = 0 THEN qq ELSE qq + 1

BullCount(t) == LET tl == Lower(t) IN Cardinality({k \in BULLISH : Contains(tl, k)})
BearCount(t) == LET tl == Lower(t) IN Cardinality({k \in BEARISH : Contains(tl, k)})

Trunc2(n, t) == (100 * n) \div t

calc_sentiment_truncating(t) ==
    LET bull == BullCount(t)  bear == BearCount(t)  total == bull + bear
    IN IF total = 0 THEN 0 ELSE Trunc2(bull - bear, total)

\* calc_sentiment(text), in hundredths
calc_sentiment(t) ==
    LET bull == BullCount(t)  bear == BearCount(t)  total == bull + bear
    IN IF total = 0 THEN 0 ELSE Round2(bull - bear, total)

MaxTextLen == 4
SentAlphabet == {"b", "u", "y", "r", "g", "B", " ", "e", "t", "U+212A", "U+1F680", "U+1F48E", "U+1F480", "U+1F43B"}
Texts(A, n) == UNION {[1..k -> A] : k \in 0..n}

InitSentiment == /\ fin \in Texts(SentAlphabet, MaxTextLen) /\ fout = "none" /\ fdone = FALSE
                 /\ PostIdle /\ PipeIdle
ApplySentiment == /\ ~fdone
                  /\ fout' = calc_sentiment(fin) /\ fdone' = TRUE
                  /\ UNCHANGED <<fin, postVars, pipeVars>>
SpecSentiment == InitSentiment /\ [][ApplySentiment]_vars

\* C4: score(text) is in [-1,1]; score("") = 0; no keyword gives 0; some
\* bullish and no bearish keyword gives 1; otherwise it is
\* (bull - bear)/(bull + bear) rounded to 2 decimals.
C4_SentimentScore ==
    fdone =>
        LET b == BullCount(fin)  r == BearCount(fin) IN
        /\ fout \in -100..100
        /\ Len(fin) = 0 => fout = 0
        /\ (b = 0 /\ r = 0) => fout = 0
        /\ (b >= 1 /\ r = 0) => fout = 100
        /\ (b + r > 0) => 2 * (IF fout * (b + r) >= 100 * (b - r)
                                THEN fout * (b + r) - 100 * (b - r)
                                ELSE 100 * (b - r) - fout * (b + r)) <= b + r
C4_Witness == fdone /\ BullCount(fin) = 2 /\ BearCount(fin) = 1 /\ fout = 33

\* KNOWN_TICKERS
KNOWN_TICKERS == {<<"N", "V", "D", "A">>, <<"T", "S", "L", "A">>, <<"A", "M", "D">>, <<"A", "A", "P", "L">>, <<"M", "S", "F", "T">>, <<"G", "O", "O", "G", "L">>,
                  <<"A", "M", "Z", "N">>, <<"M", "E", "T", "A">>, <<"G", "M", "E">>, <<"A", "M", "C">>, <<"P", "L", "T", "R">>, <<"S", "O", "F", "I">>,
                  <<"H", "O", "O", "D">>, <<"C", "O", "I", "N">>, <<"M", "S", "T", "R">>, <<"S", "P", "Y">>, <<"Q", "Q", "Q">>, <<"S", "M", "C", "I">>,
                  <<"A", "R", "M">>, <<"A", "V", "G", "O">>, <<"M", "U">>, <<"I", "N", "T", "C">>, <<"B", "A">>, <<"D", "I", "S">>,
                  <<"N", "F", "L", "X">>, <<"P", "Y", "P", "L">>, <<"B", "T", "C">>, <<"E", "T", "H">>, <<"S", "O", "L">>, <<"D", "O", "G", "E">>,
                  <<"X", "R", "P">>, <<"A", "D", "A">>, <<"D", "O", "T">>, <<"A", "V", "A", "X">>, <<"M", "A", "T", "I", "C">>, <<"L", "I", "N", "K">>,
                  <<"S", "H", "I", "B">>, <<"P", "E", "P", "E">>, <<"B", "O", "N", "K">>, <<"W", "I", "F">>, <<"A", "R", "B">>, <<"O", "P">>,
                  <<"S", "U", "I">>, <<"A", "P", "T">>}

\* \w of a str pattern (Unicode): ASCII letters, digits and '_', and the
\* non-ASCII characters of WordRanges
IsWordChar(c) == IF IsAscii(c) THEN c \in UpperLetters \cup LowerLetters \cup Digits \cup {"_"}
                 ELSE InRanges(CodePoint(c), WordRanges)
AllUpper(t, i, j) == \A k \in i..j : t[k] \in UpperLetters
\* maximal runs i..j of word characters
Runs(t) == {r \in (1..Len(t)) \X (1..Len(t)) :
               /\ r[1] <= r[2]
               /\ \A k \in r[1]..r[2] : IsWordChar(t[k])
               /\ r[1] = 1 \/ ~IsWordChar(t[r[1] - 1])
               /\ r[2] = Len(t) \/ ~IsWordChar(t[r[2] + 1])}
\* TICKER_PATTERN.findall: \$([A-Z]{1,5})\b
SigilMatches(t) == {SubSeq(t, r[1], r[2]) :
                      r \in {x \in Runs(t) : /\ x[1] > 1 /\ t[x[1] - 1] = "$"
                                             /\ AllUpper(t, x[1], x[2])
                                             /\ x[2] - x[1] + 1 \in 1..5}}
\* TICKER_MENTION.findall: \b([A-Z]{2,5})\b
MentionMatches(t) == {SubSeq(t, r[1], r[2]) :
                        r \in {x \in Runs(t) : /\ AllUpper(t, x[1], x[2])
                                               /\ x[2] - x[1] + 1 \in 2..5}}
\* the set `tickers` built by extract_tickers
TickerSet(t) == {m \in SigilMatches(t) : m \in KNOWN_TICKERS}
                \cup {m \in MentionMatches(t) : m \in KNOWN_TICKERS}
\* list(set): every iteration order of the set is a possible result
Orders(S) == {f \in [1..Cardinality(S) -> S] :
                \A i, j \in 1..Cardinality(S) : i # j => f[i] # f[j]}
\* the matches of one pass in text order
FirstPos(t, m) == CHOOSE i \in 1..(Len(t) - Len(m) + 1) : SubSeq(t, i, i + Len(m) - 1) = m
                      /\ \A k \in 1..(i - 1) : SubSeq(t, k, k + Len(m) - 1) # m
RECURSIVE InOrder(_, _)
InOrder(t, M) ==
    IF M = {} THEN <<>>
    ELSE LET first == CHOOSE m \in M : \A n \in M : m = n \/ FirstPos(t, m) < FirstPos(t, n)
         IN <<first>> \o InOrder(t, M \ {first})
extract_tickers_concat(t) ==
    {SelectSeq(InOrder(t, SigilMatches(t)), LAMBDA m : m \in KNOWN_TICKERS)
     \o SelectSeq(InOrder(t, MentionMatches(t)), LAMBDA m : m \in KNOWN_TICKERS)}
\* extract_tickers(text): the set of its possible results
extract_tickers(t) == Orders(TickerSet(t))

TickerAlphabet == {"$", "B", "A", "O", "P", "a", " ", "U+00E9"}
InitExtract == /\ fin \in Texts(TickerAlphabet, MaxTextLen) /\ fout = "none" /\ fdone = FALSE
               /\ PostIdle /\ PipeIdle
ApplyExtract == /\ ~fdone
                /\ fout' \in extract_tickers(fin) /\ fdone' = TRUE
                /\ UNCHANGED <<fin, postVars, pipeVars>>
SpecExtract == InitExtract /\ [][ApplyExtract]_vars

\* C5: extract(text) returns only members of KNOWN_TICKERS, without
\* duplicates, and always returns (possibly the empty list).
C5_ExtractKnownNoDup ==
    fdone =>
        /\ \A i \in 1..Len(fout) : fout[i] \in KNOWN_TICKERS
        /\ \A i, j \in 1..Len(fout) : i # j => fout[i] # fout[j]
C5_Witness == fdone /\ fin = <<"$", "O", "P">> /\ fout = <<<<"O", "P">>>>

-----------------------------------------------------------------------------
(* api/trends.py: calc_momentum.  The result is exact where the sum is   *)
(* rational and otherwise the floor of the logarithms taken to 2^-30; the *)
(* average post score is a fraction <<sum, count>> and the average        *)
(* sentiment a fraction <<sum in hundredths, count>>.                     *)

Micro == 1000000
Min(a, b) == IF a < b THEN a ELSE b
\* round(10^6 * math.log10(x)) for x in 1..1000
LogTable == <<0, 301030, 477121, 602060, 698970, 778151, 845098, 903090, 954243, 1000000, 1041393, 1079181,
              1113943, 1146128, 1176091, 1204120, 1230449, 1255273, 1278754, 1301030, 1322219, 1342423, 1361728, 1380211,
              1397940, 1414973, 1431364, 1447158, 1462398, 1477121, 1491362, 1505150, 1518514, 1531479, 1544068, 1556303,
              1568202, 1579784, 1591065, 1602060, 1612784, 1623249, 1633468, 1643453, 1653213, 1662758, 1672098, 1681241,
              1690196, 1698970, 1707570, 1716003, 1724276, 1732394, 1740363, 1748188, 1755875, 1763428, 1770852, 1778151,
              1785330, 1792392, 1799341, 1806180, 1812913, 1819544, 1826075, 1832509, 1838849, 1845098, 1851258, 1857332,
              1863323, 1869232, 1875061, 1880814, 1886491, 1892095, 1897627, 1903090, 1908485, 1913814, 1919078, 1924279,
              1929419, 1934498, 1939519, 1944483, 1949390, 1954243, 1959041, 1963788, 1968483, 1973128, 1977724, 1982271,
              1986772, 1991226, 1995635, 2000000, 2004321, 2008600, 2012837, 2017033, 2021189, 2025306, 2029384, 2033424,
              2037426, 2041393, 2045323, 2049218, 2053078, 2056905, 2060698, 2064458, 2068186, 2071882, 2075547, 2079181,
              2082785, 2086360, 2089905, 2093422, 2096910, 2100371, 2103804, 2107210, 2110590, 2113943, 2117271, 2120574,
              2123852, 2127105, 2130334, 2133539, 2136721, 2139879, 2143015, 2146128, 2149219, 2152288, 2155336, 2158362,
              2161368, 2164353, 2167317, 2170262, 2173186, 2176091, 2178977, 2181844, 2184691, 2187521, 2190332, 2193125,
              2195900, 2198657, 2201397, 2204120, 2206826, 2209515, 2212188, 2214844, 2217484, 2220108, 2222716, 2225309,
              2227887, 2230449, 2232996, 2235528, 2238046, 2240549, 2243038, 2245513, 2247973, 2250420, 2252853, 2255273,
              2257679, 2260071, 2262451, 2264818, 2267172, 2269513, 2271842, 2274158, 2276462, 2278754, 2281033, 2283301,
              2285557, 2287802, 2290035, 2292256, 2294466, 2296665, 2298853, 2301030, 2303196, 2305351, 2307496, 2309630,
              2311754, 2313867, 2315970, 2318063, 2320146, 2322219, 2324282, 2326336, 2328380, 2330414, 2332438, 2334454,
              2336460, 2338456, 2340444, 2342423, 2344392, 2346353, 2348305, 2350248, 2352183, 2354108, 2356026, 2357935,
              2359835, 2361728, 2363612, 2365488, 2367356, 2369216, 2371068, 2372912, 2374748, 2376577, 2378398, 2380211,
              2382017, 2383815, 2385606, 2387390, 2389166, 2390935, 2392697, 2394452, 2396199, 2397940, 2399674, 2401401,
              2403121, 2404834, 2406540, 2408240, 2409933, 2411620, 2413300, 2414973, 2416641, 2418301, 2419956, 2421604,
              2423246, 2424882, 2426511, 2428135, 2429752, 2431364, 2432969, 2434569, 2436163, 2437751, 2439333, 2440909,
              2442480, 2444045, 2445604, 2447158, 2448706, 2450249, 2451786, 2453318, 2454845, 2456366, 2457882, 2459392,
              2460898, 2462398, 2463893, 2465383, 2466868, 2468347, 2469822, 2471292, 2472756, 2474216, 2475671, 2477121,
              2478566, 2480007, 2481443, 2482874, 2484300, 2485721, 2487138, 2488551, 2489958, 2491362, 2492760, 2494155,
              2495544, 2496930, 2498311, 2499687, 2501059, 2502427, 2503791, 2505150, 2506505, 2507856, 2509203, 2510545,
              2511883, 2513218, 2514548, 2515874, 2517196, 2518514, 2519828, 2521138, 2522444, 2523746, 2525045, 2526339,
              2527630, 2528917, 2530200, 2531479, 2532754, 2534026, 2535294, 2536558, 2537819, 2539076, 2540329, 2541579,
              2542825, 2544068, 2545307, 2546543, 2547775, 2549003, 2550228, 2551450, 2552668, 2553883, 2555094, 2556303,
              2557507, 2558709, 2559907, 2561101, 2562293, 2563481, 2564666, 2565848, 2567026, 2568202, 2569374, 2570543,
              2571709, 2572872, 2574031, 2575188, 2576341, 2577492, 2578639, 2579784, 2580925, 2582063, 2583199, 2584331,
              2585461, 2586587, 2587711, 2588832, 2589950, 2591065, 2592177, 2593286, 2594393, 2595496, 2596597, 2597695,
              2598791, 2599883, 2600973, 2602060, 2603144, 2604226, 2605305, 2606381, 2607455, 2608526, 2609594, 2610660,
              2611723, 2612784, 2613842, 2614897, 2615950, 2617000, 2618048, 2619093, 2620136, 2621176, 2622214, 2623249,
              2624282, 2625312, 2626340, 2627366, 2628389, 2629410, 2630428, 2631444, 2632457, 2633468, 2634477, 2635484,
              2636488, 2637490, 2638489, 2639486, 2640481, 2641474, 2642465, 2643453, 2644439, 2645422, 2646404, 2647383,
              2648360, 2649335, 2650308, 2651278, 2652246, 2653213, 2654177, 2655138, 2656098, 2657056, 2658011, 2658965,
              2659916, 2660865, 2661813, 2662758, 2663701, 2664642, 2665581, 2666518, 2667453, 2668386, 2669317, 2670246,
              2671173, 2672098, 2673021, 2673942, 2674861, 2675778, 2676694, 2677607, 2678518, 2679428, 2680336, 2681241,
              2682145, 2683047, 2683947, 2684845, 2685742, 2686636, 2687529, 2688420, 2689309, 2690196, 2691081, 2691965,
              2692847, 2693727, 2694605, 2695482, 2696356, 2697229, 2698101, 2698970, 2699838, 2700704, 2701568, 2702431,
              2703291, 2704151, 2705008, 2705864, 2706718, 2707570, 2708421, 2709270, 2710117, 2710963, 2711807, 2712650,
              2713491, 2714330, 2715167, 2716003, 2716838, 2717671, 2718502, 2719331, 2720159, 2720986, 2721811, 2722634,
              2723456, 2724276, 2725095, 2725912, 2726727, 2727541, 2728354, 2729165, 2729974, 2730782, 2731589, 2732394,
              2733197, 2733999, 2734800, 2735599, 2736397, 2737193, 2737987, 2738781, 2739572, 2740363, 2741152, 2741939,
              2742725, 2743510, 2744293, 2745075, 2745855, 2746634, 2747412, 2748188, 2748963, 2749736, 2750508, 2751279,
              2752048, 2752816, 2753583, 2754348, 2755112, 2755875, 2756636, 2757396, 2758155, 2758912, 2759668, 2760422,
              2761176, 2761928, 2762679, 2763428, 2764176, 2764923, 2765669, 2766413, 2767156, 2767898, 2768638, 2769377,
              2770115, 2770852, 2771587, 2772322, 2773055, 2773786, 2774517, 2775246, 2775974, 2776701, 2777427, 2778151,
              2778874, 2779596, 2780317, 2781037, 2781755, 2782473, 2783189, 2783904, 2784617, 2785330, 2786041, 2786751,
              2787460, 2788168, 2788875, 2789581, 2790285, 2790988, 2791691, 2792392, 2793092, 2793790, 2794488, 2795185,
              2795880, 2796574, 2797268, 2797960, 2798651, 2799341, 2800029, 2800717, 2801404, 2802089, 2802774, 2803457,
              2804139, 2804821, 2805501, 2806180, 2806858, 2807535, 2808211, 2808886, 2809560, 2810233, 2810904, 2811575,
              2812245, 2812913, 2813581, 2814248, 2814913, 2815578, 2816241, 2816904, 2817565, 2818226, 2818885, 2819544,
              2820201, 2820858, 2821514, 2822168, 2822822, 2823474, 2824126, 2824776, 2825426, 2826075, 2826723, 2827369,
              2828015, 2828660, 2829304, 2829947, 2830589, 2831230, 2831870, 2832509, 2833147, 2833784, 2834421, 2835056,
              2835691, 2836324, 2836957, 2837588, 2838219, 2838849, 2839478, 2840106, 2840733, 2841359, 2841985, 2842609,
              2843233, 2843855, 2844477, 2845098, 2845718, 2846337, 2846955, 2847573, 2848189, 2848805, 2849419, 2850033,
              2850646, 2851258, 2851870, 2852480, 2853090, 2853698, 2854306, 2854913, 2855519, 2856124, 2856729, 2857332,
              2857935, 2858537, 2859138, 2859739, 2860338, 2860937, 2861534, 2862131, 2862728, 2863323, 2863917, 2864511,
              2865104, 2865696, 2866287, 2866878, 2867467, 2868056, 2868644, 2869232, 2869818, 2870404, 2870989, 2871573,
              2872156, 2872739, 2873321, 2873902, 2874482, 2875061, 2875640, 2876218, 2876795, 2877371, 2877947, 2878522,
              2879096, 2879669, 2880242, 2880814, 2881385, 2881955, 2882525, 2883093, 2883661, 2884229, 2884795, 2885361,
              2885926, 2886491, 2887054, 2887617, 2888179, 2888741, 2889302, 2889862, 2890421, 2890980, 2891537, 2892095,
              2892651, 2893207, 2893762, 2894316, 2894870, 2895423, 2895975, 2896526, 2897077, 2897627, 2898176, 2898725,
              2899273, 2899821, 2900367, 2900913, 2901458, 2902003, 2902547, 2903090, 2903633, 2904174, 2904716, 2905256,
              2905796, 2906335, 2906874, 2907411, 2907949, 2908485, 2909021, 2909556, 2910091, 2910624, 2911158, 2911690,
              2912222, 2912753, 2913284, 2913814, 2914343, 2914872, 2915400, 2915927, 2916454, 2916980, 2917506, 2918030,
              2918555, 2919078, 2919601, 2920123, 2920645, 2921166, 2921686, 2922206, 2922725, 2923244, 2923762, 2924279,
              2924796, 2925312, 2925828, 2926342, 2926857, 2927370, 2927883, 2928396, 2928908, 2929419, 2929930, 2930440,
              2930949, 2931458, 2931966, 2932474, 2932981, 2933487, 2933993, 2934498, 2935003, 2935507, 2936011, 2936514,
              2937016, 2937518, 2938019, 2938520, 2939020, 2939519, 2940018, 2940516, 2941014, 2941511, 2942008, 2942504,
              2943000, 2943495, 2943989, 2944483, 2944976, 2945469, 2945961, 2946452, 2946943, 2947434, 2947924, 2948413,
              2948902, 2949390, 2949878, 2950365, 2950851, 2951338, 2951823, 2952308, 2952792, 2953276, 2953760, 2954243,
              2954725, 2955207, 2955688, 2956168, 2956649, 2957128, 2957607, 2958086, 2958564, 2959041, 2959518, 2959995,
              2960471, 2960946, 2961421, 2961895, 2962369, 2962843, 2963316, 2963788, 2964260, 2964731, 2965202, 2965672,
              2966142, 2966611, 2967080, 2967548, 2968016, 2968483, 2968950, 2969416, 2969882, 2970347, 2970812, 2971276,
              2971740, 2972203, 2972666, 2973128, 2973590, 2974051, 2974512, 2974972, 2975432, 2975891, 2976350, 2976808,
              2977266, 2977724, 2978181, 2978637, 2979093, 2979548, 2980003, 2980458, 2980912, 2981366, 2981819, 2982271,
              2982723, 2983175, 2983626, 2984077, 2984527, 2984977, 2985426, 2985875, 2986324, 2986772, 2987219, 2987666,
              2988113, 2988559, 2989005, 2989450, 2989895, 2990339, 2990783, 2991226, 2991669, 2992111, 2992554, 2992995,
              2993436, 2993877, 2994317, 2994757, 2995196, 2995635, 2996074, 2996512, 2996949, 2997386, 2997823, 2998259,
              2998695, 2999131, 2999565, 3000000>>
\* round(10^6 * log10(x)) for 1 <= x <= 1000
LogMicro(x) == LogTable[x]

(* Exact arithmetic on non-negative integers of any size: little-endian  *)
(* sequences of base-10000 limbs without leading zero limbs.            *)
Bs == 10000
RECURSIVE BFromInt(_)
BFromInt(x) == IF x = 0 THEN <<>> ELSE <<x % Bs>> \o BFromInt(x \div Bs)
\* a without its high zero limbs
BNorm(a) == SubSeq(a, 1, CHOOSE n \in 0..Len(a) : \A i \in 1..Len(a) : a[i] # 0 => i <= n /\ (n = 0 \/ a[n] # 0))
Limb(a, i) == IF i <= Len(a) THEN a[i] ELSE 0
\* moves the high part of each column one limb up: the same number, with
\* columns below Bs + max(c) \div Bs
Spread(c) == [i \in 1..(Len(c) + 1) |-> (Limb(c, i) % Bs) + (IF i > 1 THEN c[i - 1] \div Bs ELSE 0)] \o <<>>
\* columns at most Bs: column i gets a carry of 1 exactly when some lower
\* column reaches Bs and every column between them is Bs - 1
CarryIn(e, i) == \E j \in 1..(i - 1) : e[j] >= Bs /\ \A l \in (j + 1)..(i - 1) : e[l] = Bs - 1
\* columns below 2 * Bs, spread first to columns at most Bs (with one more
\* limb for the top carry)
Ripple(e) == LET f == Spread(e)
             IN BNorm([i \in 1..Len(f) |-> (f[i] + (IF CarryIn(f, i) THEN 1 ELSE 0)) % Bs] \o <<>>)
\* the number sum c[i] * Bs^(i-1) with columns 0 <= c[i] < 2^31, in limbs
Carry(c) == Ripple(Spread(Spread(c \o <<>>)))
\* (the operands are evaluated first, before the columns are built)
BAdd(a, b) == LET n == IF Len(a) > Len(b) THEN Len(a) ELSE Len(b)
              IN IF n >= 0 THEN Carry([i \in 1..n |-> Limb(a, i) + Limb(b, i)]) ELSE <<>>
\* a * k for 0 <= k <= 100000
BMulSmall(a, k) == IF Len(a) >= 0 /\ k >= 0 THEN Carry([i \in 1..Len(a) |-> a[i] * k]) ELSE <<>>
\* column k of the product: sum of a[i] * b[k - i + 1]
RECURSIVE ColSum(_, _, _, _)
ColSum(a, b, k, i) ==
    IF i > Len(a) THEN 0
    ELSE (IF k - i + 1 \in 1..Len(b) THEN a[i] * b[k - i + 1] ELSE 0) + ColSum(a, b, k, i + 1)
\* a * b for numbers of at most 21 limbs
BMul(a, b) ==
    IF a = <<>> \/ b = <<>> THEN <<>>
    ELSE Carry([k \in 1..(Len(a) + Len(b) - 1) |-> ColSum(a, b, k, 1)])
RECURSIVE BCmpFrom(_, _, _)
BCmpFrom(a, b, i) ==
    IF i = 0 THEN 0
    ELSE IF a[i] < b[i] THEN -1 ELSE IF a[i] > b[i] THEN 1 ELSE BCmpFrom(a, b, i - 1)
BCmp(a, b) == IF Len(a) < Len(b) THEN -1 ELSE IF Len(a) > Len(b) THEN 1 ELSE BCmpFrom(a, b, Len(a))
\* floor(a / k) for 1 <= k <= 200000
RECURSIVE BDivSmallFrom(_, _, _, _)
BDivSmallFrom(a, k, i, r) ==
    IF i = 0 THEN <<>>
    ELSE LET t == r * Bs + a[i] IN IF t >= 0 THEN BDivSmallFrom(a, k, i - 1, t % k) \o <<t \div k>> ELSE <<>>
BDivSmall(a, k) == BNorm(BDivSmallFrom(a, k, Len(a), 0))
RECURSIVE BPow10(_)
BPow10(e) == IF e < 4 THEN BFromInt(10^e) ELSE <<0>> \o BPow10(e - 4)
\* 2^e for 0 <= e <= 60
BPow2(e) == BMul(BFromInt(2^(e \div 2)), BFromInt(2^(e - e \div 2)))
\* floor(a / 10^e)
BDivPow10(a, e) ==
    LET q == e \div 4
        sh == IF Len(a) <= q THEN <<>> ELSE SubSeq(a, q + 1, Len(a))
    IN BDivSmall(sh, 10^(e % 4))
RECURSIVE IntDigits(_)
IntDigits(x) == IF x < 10 THEN 1 ELSE 1 + IntDigits(x \div 10)
BDigits(a) == IF a = <<>> THEN 0 ELSE 4 * (Len(a) - 1) + IntDigits(a[Len(a)])

\* log10(num / den) * 2^LogBits, num >= den >= 1, den <= 200000: the
\* quotient is kept to LogPrec decimals, and each step raises the mantissa
\* to the 32nd power, whose decimal exponent gives the next 5 binary digits
\* of the logarithm.
LogPrec == 16
LogSteps == 10
LogBits == 5 * LogSteps
Sq(v) == BDivPow10(BMul(v, v), LogPrec)
\* v^(2^n), each square kept to LogPrec decimals
RECURSIVE SqN(_, _)
SqN(v, n) == IF n = 0 THEN v ELSE LET s == Sq(v) IN IF Len(s) > 0 THEN SqN(s, n - 1) ELSE v
\* log10(v) * 32^(LogSteps - i + 1) for the mantissa 1 <= v < 10 (LogPrec
\* decimals), added to acc * 32^(LogSteps - i + 1): the decimal exponent of
\* v^32 is the next 5 bits, and v^32 scaled back to [1, 10) is the next
\* mantissa
RECURSIVE LogBitsFrom(_, _, _)
LogBitsFrom(v, i, acc) ==
    IF i > LogSteps THEN acc
    ELSE LET v32 == SqN(v, 5)
             k == BDigits(v32) - LogPrec - 1
             v2 == BDivPow10(v32, k)
             acc2 == BAdd(BMulSmall(acc, 32), BFromInt(k))
         IN IF Len(v2) > 0 /\ Len(acc2) >= 0 THEN LogBitsFrom(v2, i + 1, acc2) ELSE acc
\* e * 2^LogBits + log10(m) * 2^LogBits for the mantissa m
BLog10Of(e, m) == IF Len(m) > 0 /\ e >= 0 THEN BAdd(BMulSmall(BPow2(LogBits), e), LogBitsFrom(m, 1, <<>>)) ELSE <<>>
BLog10(num, den) ==
    LET v0 == BDivSmall(BMul(BFromInt(num), BPow10(LogPrec)), den)
        e == BDigits(v0) - LogPrec - 1
    IN BLog10Of(e, BDivPow10(v0, e))

\* m^2 * num = 10^j * den for some j: 20 log10(m) + 10 log10(num/den) = 10 j
Pow10Ratio(x, den) == \E j \in 0..15 : BCmp(x, BMul(BPow10(j), BFromInt(den))) = 0
Pow10Exp(x, den) == CHOOSE j \in 0..15 : BCmp(x, BMul(BPow10(j), BFromInt(den))) = 0

(* calc_momentum(mentions, avg_score, sentiment) with avg_score =        *)
(* ssum / scnt (ints, 1 <= scnt <= 200000) and sentiment = tsum / (100 *   *)
(* tcnt) (tsum in hundredths).  Components:                               *)
(*   mention  min(40, 20 log10(max(1, mentions)))                        *)
(*   score    min(30, 10 log10(max(1, avg_score)))                       *)
(*   sentiment min(30, (|sentiment| + 0.5) * 20) = min(30, 10 + |tsum|/(5 tcnt)) *)
(* and the result is max(0, min(100, int(sum))).                         *)
MentionCapped(m) == m >= 100
MentionZero(m) == m <= 1
ScoreCapped(ssum, scnt) == ssum >= 1000 * scnt
ScoreZero(ssum, scnt) == ssum <= scnt
\* the sentiment component times 5 * tcnt
SentNum(tsum, tcnt) == Min(150 * tcnt, 50 * tcnt + (IF tsum < 0 THEN -tsum ELSE tsum))

\* millionths estimates, within 25 millionths of the exact components
MentionComp(m) == IF MentionCapped(m) THEN 40 * Micro
                  ELSE IF MentionZero(m) THEN 0 ELSE 20 * LogMicro(m)
ScoreComp(ssum, scnt) ==
    IF ScoreCapped(ssum, scnt) THEN 30 * Micro
    ELSE IF ScoreZero(ssum, scnt) THEN 0 ELSE 10 * (LogMicro(ssum) - LogMicro(scnt))
\* (SentNum * 200000) \div tcnt, in steps that stay within 32 bits
SentComp(tsum, tcnt) ==
    LET n == SentNum(tsum, tcnt)
        r1 == (n % tcnt) * 200
    IN (n \div tcnt) * 200000 + (r1 \div tcnt) * 1000 + ((r1 % tcnt) * 1000) \div tcnt
Clamp(lo, hi, x) == IF x < lo THEN lo ELSE IF x > hi THEN hi ELSE x

\* the sum is a rational number: its value times 5 * tcnt, as a pair with
\* the multiplier
\* 20 log10(m) and 10 log10(ssum / scnt) are both irrational but sum to a
\* multiple of 10
Pow10Case(m, ssum, scnt) ==
    /\ ~MentionCapped(m) /\ ~MentionZero(m) /\ m # 10
    /\ ~ScoreCapped(ssum, scnt) /\ ~ScoreZero(ssum, scnt)
    /\ ssum # 10 * scnt /\ ssum # 100 * scnt
    /\ Pow10Ratio(BMul(BFromInt(m * m), BFromInt(ssum)), scnt)
RationalSum(m, ssum, scnt, tsum, tcnt) ==
    LET aR == IF MentionCapped(m) THEN 40 ELSE IF MentionZero(m) THEN 0
              ELSE IF m = 10 THEN 20 ELSE -1
        bR == IF ScoreCapped(ssum, scnt) THEN 30 ELSE IF ScoreZero(ssum, scnt) THEN 0
              ELSE IF ssum = 10 * scnt THEN 10 ELSE IF ssum = 100 * scnt THEN 20 ELSE -1
        both == BMul(BFromInt(m * m), BFromInt(ssum))
    IN IF aR >= 0 /\ bR >= 0 THEN (aR + bR) * 5 * tcnt + SentNum(tsum, tcnt)
       ELSE IF Pow10Case(m, ssum, scnt)
       THEN 10 * Pow10Exp(both, scnt) * 5 * tcnt + SentNum(tsum, tcnt)
       ELSE -1
\* Distance to an integer, below which the float sum (rounding errors of
\* about 1e-14) may fall on either side of it: 2^-40
NearInteger == 40
\* the floor k of x / d, with k - 1 or k + 1 when x is within w of k * d or
\* (k + 1) * d
FloorsOf(x, d, w) ==
    LET k == CHOOSE j \in 0..101 : BCmp(BMulSmall(d, j), x) <= 0
                                  /\ (j = 101 \/ BCmp(BMulSmall(d, j + 1), x) > 0)
    IN {k}
       \cup (IF BCmp(x, BAdd(BMulSmall(d, k), w)) <= 0 THEN {k - 1} ELSE {})
       \cup (IF BCmp(BAdd(x, w), BMulSmall(d, k + 1)) >= 0 THEN {k + 1} ELSE {})
\* The floors the float sum of an irrational sum can have, from the
\* logarithms to 2^-LogBits.
PreciseFloors(m, ssum, scnt, tsum, tcnt) ==
    LET two == BPow2(LogBits)
        aX == IF MentionCapped(m) THEN BMulSmall(two, 40) ELSE IF MentionZero(m) THEN <<>>
              ELSE BMulSmall(BLog10(m, 1), 20)
        bX == IF ScoreCapped(ssum, scnt) THEN BMulSmall(two, 30)
              ELSE IF ScoreZero(ssum, scnt) THEN <<>> ELSE BMulSmall(BLog10(ssum, scnt), 10)
        \* (A + B + C) * 2^LogBits * 5 tcnt
        x == BAdd(BMulSmall(BAdd(aX, bX), 5 * tcnt), BMulSmall(two, SentNum(tsum, tcnt)))
        d == BMulSmall(two, 5 * tcnt)
        w == BMulSmall(BPow2(LogBits - NearInteger), 5 * tcnt)
    IN IF Len(x) >= 0 /\ Len(d) >= 0 /\ Len(w) >= 0 THEN FloorsOf(x, d, w) ELSE {}

\* max(0, min(100, int(sum))): the set of results the float computation can
\* give.  The float sum of an integral or nearly integral sum may fall on
\* either side of the integer, unless all its terms are exact floats.
MomentumResults(mentions, a, s) ==
    LET m == mentions  ssum == a[1]  scnt == a[2]  tsum == s[1]  tcnt == s[2]
        r == RationalSum(m, ssum, scnt, tsum, tcnt)
        est == MentionComp(m) + ScoreComp(ssum, scnt) + SentComp(tsum, tcnt)
        usable == (ScoreCapped(ssum, scnt) \/ ScoreZero(ssum, scnt)
                   \/ (ssum <= 1000 /\ scnt <= 1000))
                  /\ est % Micro > 100 /\ est % Micro < Micro - 100
    IN IF r >= 0
       THEN LET k == r \div (5 * tcnt) IN
            IF /\ r % (5 * tcnt) = 0
               /\ \/ Pow10Case(m, ssum, scnt)
                  \/ tcnt > 1 /\ tsum # 0 /\ SentNum(tsum, tcnt) < 150 * tcnt
            THEN {Clamp(0, 100, k - 1), Clamp(0, 100, k)}
            ELSE {Clamp(0, 100, k)}
       ELSE IF usable THEN {Clamp(0, 100, est \div Micro)}
       ELSE {Clamp(0, 100, k) : k \in PreciseFloors(m, ssum, scnt, tsum, tcnt)}

calc_momentum_mention_subtracted(mentions, a, s) ==
    {Clamp(0, 100, x - (2 * MentionComp(mentions)) \div Micro) : x \in MomentumResults(mentions, a, s)}

\* calc_momentum(mentions, avg_score, sentiment)
calc_momentum(mentions, a, s) == MomentumResults(mentions, a, s)

MaxMentions == 12
\* average scores sum / count and sentiments sum / (100 * count)
AvgScores == {<<0, 1>>, <<1, 1>>, <<10, 1>>, <<25, 1>>, <<75, 1>>, <<500, 1>>,
              <<1000, 1>>, <<10000, 1>>, <<1584, 2>>, <<426, 8>>}
SentimentValues == {<<-100, 1>>, <<-35, 1>>, <<-25, 1>>, <<0, 1>>, <<10, 1>>,
                    <<100, 1>>, <<-200, 2>>, <<-667, 8>>}

InitMomentum == /\ fin \in [m : 0..MaxMentions, a : AvgScores, s : SentimentValues]
                /\ fout = "none" /\ fdone = FALSE
                /\ PostIdle /\ PipeIdle
ApplyMomentum == /\ ~fdone
                 /\ fout' \in calc_momentum(fin.m, fin.a, fin.s) /\ fdone' = TRUE
                 /\ UNCHANGED <<fin, postVars, pipeVars>>
\* a second evaluation with more mentions, same average score and |sentiment|
MoreMentions == /\ fdone
                /\ \E m2 \in (fin.m + 1)..MaxMentions, sgn \in {1, -1} :
                      /\ fin' = [fin EXCEPT !.m = m2, !.s = <<sgn * fin.s[1], fin.s[2]>>]
                      /\ fout' \in calc_momentum(m2, fin.a, fin'.s)
                /\ UNCHANGED <<fdone, postVars, pipeVars>>
SpecMomentum == InitMomentum /\ [][ApplyMomentum \/ MoreMentions]_vars

\* C6: calc_momentum is an integer in [0,100] and, for a fixed average
\* score and fixed |sentiment|, never decreases when mentions grow.
C6_Range == fdone => fout \in 0..100
C6_MomentumMonotone ==
    /\ []C6_Range
    /\ [][(fdone /\ fin'.m > fin.m /\ fin'.a = fin.a
          /\ fin'.s[2] = fin.s[2]
          /\ (fin'.s[1] = fin.s[1] \/ fin'.s[1] = -fin.s[1])) => fout' >= fout]_vars
C6_Witness == fdone /\ fin.m = 10 /\ fin.a = <<75, 1>> /\ fin.s = <<-25, 1>> /\ fout = 53

-----------------------------------------------------------------------------
(* api/trends.py: fetch_reddit_data, fetch_twitter_trends, build_response *)
(* The network calls hand over a page: the forum posts (subreddit, title  *)
(* and selftext joined, score) in the order the loops visit them, and the  *)
(* texts of the trend-card links.                                         *)

REDDIT_SUBREDDITS == <<"wallstreetbets", "cryptocurrency">>
TrendLimit == 30
TopN == 20
\* keywords of the fallback test in fetch_twitter_trends
TrendKeywords == {<<"s", "t", "o", "c", "k">>, <<"c", "r", "y", "p", "t", "o">>, <<"b", "i", "t", "c", "o", "i", "n">>, <<"e", "t", "h", "e", "r", "e", "u", "m">>, <<"$">>}

RedditPageC7 == << [sub |-> "wallstreetbets", text |-> <<"$", "N", "V", "D", "A", " ", "m", "o", "o", "n", " ", "m", "o", "o", "n">>, score |-> 100],
                [sub |-> "wallstreetbets", text |-> <<"N", "V", "D", "A", " ", "p", "u", "t", "s">>, score |-> 50] >>
RedditPageMix == << [sub |-> "wallstreetbets", text |-> <<"B", "T", "C", " ", "a", "n", "d", " ", "E", "T", "H", " ", "p", "u", "m", "p">>, score |-> 10],
                 [sub |-> "cryptocurrency", text |-> <<"$", "B", "T", "C", " ", "r", "e", "k", "t">>, score |-> 3],
                 [sub |-> "cryptocurrency", text |-> <<"S", "O", "L">>, score |-> 1] >>
RedditPageScores == << [sub |-> "wallstreetbets", text |-> <<"N", "V", "D", "A", " ", "r", "o", "c", "k", "e", "t">>, score |-> 1000],
                    [sub |-> "wallstreetbets", text |-> <<"N", "V", "D", "A", " ", "p", "u", "t", "s", " ", "c", "r", "a", "s", "h">>, score |-> 584],
                    [sub |-> "cryptocurrency", text |-> <<"B", "T", "C", " ", "h", "o", "d", "l", " ", "m", "o", "o", "n">>, score |-> 1997],
                    [sub |-> "cryptocurrency", text |-> <<"B", "T", "C", " ", "d", "u", "m", "p">>, score |-> 0],
                    [sub |-> "cryptocurrency", text |-> <<"B", "T", "C", "U+03A3", " ", "m", "o", "o", "n">>, score |-> 5],
                    [sub |-> "wallstreetbets", text |-> <<"U+0414", "B", "A", " ", "m", "o", "o", "n">>, score |-> 7] >>
RedditPages == {<<>>, RedditPageC7, RedditPageMix, RedditPageScores}

TrendPagePlain == << <<"N", "V", "D", "A">>,
                  <<"B", "i", "t", "c", "o", "i", "n">>,
                  <<"B", "T", "C">>,
                  <<"B", "T", "C", " ", "n", "e", "w", "s">> >>
TrendPageSigil == << <<"$", "$", "m", "o", "o", "n", "s", "h", "o", "t">>,
                  <<"b", "i", "t", "c", "o", "i", "n">>,
                  <<>>,
                  <<"B", "I", "T", "C", "O", "I", "N">>,
                  <<"C", "r", "y", "p", "t", "o", " ", "c", "r", "a", "s", "h", " ", "t", "o", "d", "a", "y">>,
                  <<"s", "p", "o", "r", "t", "s">> >>
TrendPageMany == << <<"N", "V", "D", "A">>,
                 <<"T", "S", "L", "A">>,
                 <<"A", "M", "D">>,
                 <<"A", "A", "P", "L">>,
                 <<"M", "S", "F", "T">>,
                 <<"G", "O", "O", "G", "L">>,
                 <<"A", "M", "Z", "N">>,
                 <<"M", "E", "T", "A">>,
                 <<"G", "M", "E">>,
                 <<"A", "M", "C">>,
                 <<"P", "L", "T", "R">>,
                 <<"S", "O", "F", "I">>,
                 <<"H", "O", "O", "D">>,
                 <<"C", "O", "I", "N">>,
                 <<"M", "S", "T", "R">>,
                 <<"S", "P", "Y">>,
                 <<"Q", "Q", "Q">>,
                 <<"S", "M", "C", "I">>,
                 <<"A", "R", "M">>,
                 <<"A", "V", "G", "O">>,
                 <<"M", "U">>,
                 <<"B", "T", "C">>,
                 <<"B", "T", "C">>,
                 <<"B", "T", "C">>,
                 <<"I", "N", "T", "C">>,
                 <<"B", "A">>,
                 <<"D", "I", "S">>,
                 <<"N", "F", "L", "X">>,
                 <<"P", "Y", "P", "L">>,
                 <<"E", "T", "H">>,
                 <<"X", "R", "P">> >>
TrendPageMulti == << <<"B", "T", "C", " ", "E", "T", "H">>, <<"B", "T", "$", "C">> >>
TrendPageUni == << <<"e", "t", "U+1E96">>, <<"U+0414", "B", "A">>, <<"U+03C3", " ", "c", "r", "y", "p", "t", "o">>, <<"U+03A3", " ", "c", "r", "y", "p", "t", "o">> >>
TrendPages == {<<>>, TrendPagePlain, TrendPageSigil, TrendPageMany, TrendPageMulti, TrendPageUni}

RECURSIVE SumSeq(_)
SumSeq(sq) == IF sq = <<>> THEN 0 ELSE Head(sq) + SumSeq(Tail(sq))

\* ticker_data[ticker] updates for one post, tickers in list order
RECURSIVE AddPost(_, _, _, _, _)
AddPost(rd, order, sent, score, sub) ==
    IF order = <<>> THEN rd
    ELSE LET tk == Head(order)
             idx == {i \in 1..Len(rd) : rd[i].ticker = tk}
             rd2 == IF idx = {}
                    THEN Append(rd, [ticker |-> tk, mentions |-> 1, ssum |-> sent,
                                     scores |-> <<score>>, posts |-> 1, subreddit |-> sub])
                    ELSE LET i == CHOOSE j \in idx : TRUE IN
                         [rd EXCEPT ![i].mentions = @ + 1, ![i].ssum = @ + sent,
                                    ![i].scores = Append(@, score), ![i].posts = @ + 1,
                                    ![i].subreddit = sub]
         IN AddPost(rd2, Tail(order), sent, score, sub)

\* build_response starts: both pages are what the network returns
InitPipeline == /\ ppc = "reddit" /\ rpage \in RedditPages /\ ri = 1 /\ rerr = FALSE
                /\ rdata = <<>> /\ tpage \in TrendPages /\ ti = 1 /\ tdata = <<>>
                /\ recs = <<>> /\ out = <<>>
                /\ terr = FALSE /\ run = 1 /\ out1 = <<>> /\ err1 = FALSE
                /\ FnIdle /\ PostIdle

\* fetch_reddit_data: one iteration of `for post in posts`
RedditPost ==
    /\ ppc = "reddit" /\ ri <= Len(rpage)
    /\ LET p == rpage[ri] IN
       \E order \in extract_tickers(p.text) :
          rdata' = AddPost(rdata, order, calc_sentiment(p.text), p.score, p.sub)
    /\ ri' = ri + 1
    /\ UNCHANGED <<ppc, rpage, rerr, tpage, ti, tdata, recs, out, terr, run, out1, err1, fnVars, postVars>>

\* fetch_reddit_data returns dict(ticker_data)
RedditDone ==
    /\ ppc = "reddit" /\ ri > Len(rpage)
    /\ ppc' = "twitter"
    /\ UNCHANGED <<rpage, ri, rerr, rdata, tpage, ti, tdata, recs, out, terr, run, out1, err1, fnVars, postVars>>

\* any PRAW call raises: fetch_reddit_data returns {}
RedditError ==
    /\ ppc = "reddit"
    /\ ppc' = "twitter" /\ rdata' = <<>> /\ rerr' = TRUE
    /\ UNCHANGED <<rpage, ri, tpage, ti, tdata, recs, out, terr, run, out1, err1, fnVars, postVars>>

\* fetch_twitter_trends: one iteration of `for item in trend_cards[:30]`
TwitterItem ==
    /\ ppc = "twitter" /\ ti <= Min(Len(tpage), TrendLimit)
    /\ LET text == tpage[ti] IN
       IF Len(text) = 0 THEN tdata' = tdata
       ELSE IF TickerSet(Upper(text)) # {}
       THEN \E order \in extract_tickers(Upper(text)) : tdata' = tdata \o order
       ELSE IF \E kw \in TrendKeywords : Contains(Lower(text), kw)
       THEN tdata' = Append(tdata, SubSeq(text, 1, Min(10, Len(text))))
       ELSE tdata' = tdata
    /\ ti' = ti + 1
    /\ UNCHANGED <<ppc, rpage, ri, rerr, rdata, tpage, recs, out, terr, run, out1, err1, fnVars, postVars>>

\* requests.get / raise_for_status raise: fetch_twitter_trends returns []
TwitterError ==
    /\ ppc = "twitter" /\ ti = 1
    /\ ppc' = "build" /\ tdata' = <<>> /\ terr' = TRUE
    /\ UNCHANGED <<rpage, ri, rerr, rdata, tpage, ti, recs, out, run, out1, err1, fnVars, postVars>>

TwitterDone ==
    /\ ppc = "twitter" /\ ti > Min(Len(tpage), TrendLimit)
    /\ ppc' = "build"
    /\ UNCHANGED <<rpage, ri, rerr, rdata, tpage, ti, tdata, recs, out, terr, run, out1, err1, fnVars, postVars>>

\* round(avg_sentiment, 2) in hundredths, avg_sentiment = ssum / (100 * m):
\* the float sum lies on either side of a half-hundredth tie
RoundAvg(ssum, m) ==
    LET qq == ssum \div m  rr == ssum % m IN
    IF 2 * rr > m THEN {qq + 1} ELSE IF 2 * rr < m THEN {qq} ELSE {qq, qq + 1}
RECURSIVE SentVectors(_)
SentVectors(rd) ==
    IF rd = <<>> THEN {<<>>}
    ELSE {<<x>> \o rest : x \in RoundAvg(Head(rd).ssum, Head(rd).mentions)
                               \X calc_momentum(Head(rd).mentions,
                                                 <<SumSeq(Head(rd).scores), Len(Head(rd).scores)>>,
                                                 <<Head(rd).ssum, Head(rd).mentions>>),
                          rest \in SentVectors(Tail(rd))}

\* build_response: the reddit records, in ticker_data order
RedditRecords(rd, sv) ==
    [i \in 1..Len(rd) |->
        [ticker |-> <<"$">> \o rd[i].ticker, source |-> "reddit",
         momentum |-> sv[i][2],
         mentions |-> rd[i].mentions, sentiment |-> sv[i][1],
         subreddit |-> rd[i].subreddit, posts |-> rd[i].posts]]

\* twitter_tickers: distinct tickers in first-appearance order
RECURSIVE Distinct(_, _)
Distinct(sq, acc) ==
    IF sq = <<>> THEN acc
    ELSE Distinct(Tail(sq), IF \E i \in 1..Len(acc) : acc[i] = Head(sq)
                            THEN acc ELSE Append(acc, Head(sq)))
Count(sq, x) == Len(SelectSeq(sq, LAMBDA y : y = x))
\* ticker.replace('$', '')
RemoveDollar(t) == SelectSeq(t, LAMBDA c : c # "$")
InReddit(t, rd) == \E i \in 1..Len(rd) : rd[i].ticker = RemoveDollar(t)

TwitterMomentum(t, c, rd) ==
    LET base == Min(80, 30 + c * 10) IN
    IF InReddit(t, rd) THEN Min(95, base + 15) ELSE base

\* build_response: the twitter records, in twitter_tickers order
TwitterRecords(td, rd) ==
    LET keys == Distinct(td, <<>>) IN
    [i \in 1..Len(keys) |->
        [ticker |-> IF keys[i][1] = "$" THEN keys[i] ELSE <<"$">> \o keys[i],
         source |-> "twitter",
         momentum |-> TwitterMomentum(keys[i], Count(td, keys[i]), rd),
         mentions |-> Count(td, keys[i]), sentiment |-> 10,
         subreddit |-> "None", posts |-> 0]]

\* trends.sort(key=momentum, reverse=True): stable, descending
RECURSIVE ByMomentum(_, _)
ByMomentum(sq, v) ==
    IF v < 0 THEN <<>>
    ELSE SelectSeq(sq, LAMBDA r : r.momentum = v) \o ByMomentum(sq, v - 1)
RECURSIVE ByMomentumUp(_, _)
ByMomentumUp(sq, v) ==
    IF v > 100 THEN <<>>
    ELSE SelectSeq(sq, LAMBDA r : r.momentum = v) \o ByMomentumUp(sq, v + 1)
Reverse(sq) == [i \in 1..Len(sq) |-> sq[Len(sq) + 1 - i]]
SortDesc_reversed_ascending(sq) == Reverse(ByMomentumUp(sq, 0))
SortDesc(sq) == ByMomentum(sq, 100)

\* the dedupe loop over the sorted trends, seen-set of t['ticker'].upper()
RECURSIVE Dedupe_exact(_, _)
Dedupe_exact(sq, seen) ==
    IF sq = <<>> THEN <<>>
    ELSE IF Head(sq).ticker \in seen THEN Dedupe_exact(Tail(sq), seen)
    ELSE <<Head(sq)>> \o Dedupe_exact(Tail(sq), seen \cup {Head(sq).ticker})
RECURSIVE Dedupe(_, _)
Dedupe(sq, seen) ==
    IF sq = <<>> THEN <<>>
    ELSE IF Upper(Head(sq).ticker) \in seen THEN Dedupe(Tail(sq), seen)
    ELSE <<Head(sq)>> \o Dedupe(Tail(sq), seen \cup {Upper(Head(sq).ticker)})

\* build_response after both fetches: records, sort, dedupe, top 20
Build ==
    /\ ppc = "build"
    /\ \E sv \in SentVectors(rdata) :
          LET trends == RedditRecords(rdata, sv) \o TwitterRecords(tdata, rdata)
              uniq == Dedupe(SortDesc(trends), {})
          IN /\ recs' = trends
             /\ out' = SubSeq(uniq, 1, Min(TopN, Len(uniq)))
    /\ ppc' = "done"
    /\ UNCHANGED <<rpage, ri, rerr, rdata, tpage, ti, tdata, terr, run, out1, err1, fnVars, postVars>>

PipeNext == RedditPost \/ RedditDone \/ RedditError \/ TwitterItem \/ TwitterError
            \/ TwitterDone \/ Build
SpecPipeline == InitPipeline /\ [][PipeNext]_vars

\* a second build_response call in a new process on the same pages
Rerun ==
    /\ ppc = "done" /\ run = 1
    /\ run' = 2 /\ out1' = out /\ err1' = (rerr \/ terr)
    /\ ppc' = "reddit" /\ ri' = 1 /\ rerr' = FALSE /\ rdata' = <<>>
    /\ ti' = 1 /\ tdata' = <<>> /\ terr' = FALSE /\ recs' = <<>> /\ out' = <<>>
    /\ UNCHANGED <<rpage, tpage, fnVars, postVars>>
SpecTwice == InitPipeline /\ [][PipeNext \/ Rerun]_vars

\* C7: forum posts "$NVDA moon moon" (score 100) and "NVDA puts" (score 50)
\* give one NVDA forum record: mentions 2, average sentiment 0, average
\* engagement 75, momentum 34.
NVDA == <<"N", "V", "D", "A">>
C7_NvdaExample ==
    (ppc = "done" /\ rpage = RedditPageC7 /\ ~rerr /\ tdata = <<>>) =>
        /\ Len(rdata) = 1 /\ rdata[1].ticker = NVDA
        /\ SumSeq(rdata[1].scores) = 75 * Len(rdata[1].scores)
        /\ Len(out) = 1
        /\ out[1].ticker = <<"$">> \o NVDA /\ out[1].source = "reddit"
        /\ out[1].mentions = 2 /\ out[1].sentiment = 0 /\ out[1].momentum = 34
C7_Witness == ppc = "done" /\ rpage = RedditPageC7 /\ ~rerr /\ tdata = <<>>
              /\ Len(out) = 1

\* C8: the result holds no two records whose tickers agree up to case, and
\* each kept record has the highest momentum of all records of its ticker.
C8_DedupeKeepsMax ==
    ppc = "done" =>
        /\ \A i, j \in 1..Len(out) : i # j => Upper(out[i].ticker) # Upper(out[j].ticker)
        /\ \A i \in 1..Len(out) : \A k \in 1..Len(recs) :
               Upper(recs[k].ticker) = Upper(out[i].ticker)
                   => recs[k].momentum <= out[i].momentum
C8_Witness == ppc = "done" /\ \E k, l \in 1..Len(recs) :
                  /\ k # l /\ Upper(recs[k].ticker) = Upper(recs[l].ticker)
                  /\ recs[k].momentum > recs[l].momentum

\* C9: at most 20 records, non-increasing momentum, and records of equal
\* momentum in the order they were built (forum records, then trend ones).
PosIn(sq, r) == CHOOSE k \in 1..Len(sq) : sq[k] = r
C9_RankedOrder ==
    ppc = "done" =>
        /\ Len(out) <= 20
        /\ \A i \in 1..(Len(out) - 1) : out[i].momentum >= out[i + 1].momentum
        /\ \A i, j \in 1..Len(out) :
               (i < j /\ out[i].momentum = out[j].momentum)
                   => PosIn(recs, out[i]) < PosIn(recs, out[j])
C9_Witness == ppc = "done" /\ Len(recs) > 20 /\ Len(out) = 20
              /\ out[1].momentum > out[2].momentum /\ out[3].momentum = out[4].momentum

\* C10: every output record's ticker starts with exactly one '$', momentum
\* is in [0,100], sentiment in [-1,1], mentions and posts are >= 0.
C10_RecordInvariants ==
    ppc = "done" =>
        \A i \in 1..Len(out) :
            /\ out[i].ticker[1] = "$"
            /\ Len(out[i].ticker) = 1 \/ out[i].ticker[2] # "$"
            /\ out[i].momentum \in 0..100
            /\ out[i].sentiment \in -100..100
            /\ out[i].mentions >= 0 /\ out[i].posts >= 0

\* C11: two build_response calls on identical forum and trend pages (no
\* fetch error in either) give the same ranked list, records and order.
C11_Deterministic ==
    (run = 2 /\ ppc = "done" /\ ~err1 /\ ~rerr /\ ~terr) => out = out1

\* C12 (as stated): a trend ticker seen c >= 1 times gets momentum
\* min(80, 30 + 10c), plus 15 capped at 95 iff the ticker is a forum key;
\* so it is in [40,95], with sentiment 0.1 and posts 0.
C12_Original ==
    ppc = "done" =>
        \A k \in 1..Len(recs) : recs[k].source = "twitter" =>
            LET c == recs[k].mentions
                base == Min(80, 30 + 10 * c)
                onForum == \E i \in 1..Len(rdata) : rdata[i].ticker = Tail(recs[k].ticker)
            IN /\ c >= 1
               /\ recs[k].momentum = IF onForum THEN Min(95, base + 15) ELSE base
               /\ recs[k].momentum \in 40..95
               /\ recs[k].sentiment = 10 /\ recs[k].posts = 0

(* The POST handler.  The body's "signal" is absent, JSON null, an empty
   string, one of the four signals, some other string, or a JSON value of
   another type: false, true, 0, 0.0, 1, [], [1], {}, {"a": 1} (tagged
   "JSON_..").  Only a truthy value (data.get('signal') or ...) bypasses
   determine_signal; a non-string value equals no signal name. *)
JsonOthers == {"JSON_false", "JSON_true", "JSON_0", "JSON_0.0", "JSON_1",
               "JSON_[]", "JSON_[1]", "JSON_{}", "JSON_{a:1}"}
SignalFields == {"ABSENT", "NULL", ""} \cup Signals \cup {"OTHER"} \cup JsonOthers
\* Python falsy values: None, False, 0, 0.0, "", [], {}
Falsy == {"ABSENT", "NULL", "", "JSON_false", "JSON_0", "JSON_0.0", "JSON_[]", "JSON_{}"}
Truthy_key_present(v) == v # "ABSENT"
Truthy(v) == v \notin Falsy
Channels == {"discord", "email"}
PostMomenta == {20, 30, 50, 75, 79, 80, 85}
PostSentiments == {-50, 0, 10, 30}
ChannelFields == {{}, {"discord"}, {"email"}, Channels}

InitPost == /\ req \in [momentum : PostMomenta, sentiment : PostSentiments,
                         sig : SignalFields, channels : ChannelFields]
            /\ pc = "start" /\ signal = "NONE" /\ classified = FALSE
            /\ checked = FALSE /\ results = [c \in {} |-> FALSE] /\ resp = "none"
            /\ FnIdle /\ PipeIdle

\* handler.do_POST: decide the signal, check the threshold, then call the
\* senders of the requested channels; each sender reports success or not
\* (webhook/env configuration and the remote status are outside the core).
DoPost ==
    /\ pc = "start"
    /\ LET sig == IF Truthy(req.sig) THEN req.sig
                  ELSE determine_signal(req.momentum, req.sentiment)
       IN /\ signal' = sig
          /\ classified' = ~Truthy(req.sig)
          /\ checked' = TRUE
          /\ pc' = "done"
          /\ IF ~should_alert(sig, req.momentum)
                THEN /\ resp' = "below_threshold"
                     /\ results' = [c \in {} |-> FALSE]
                ELSE /\ resp' = "sent"
                     /\ results' \in [req.channels -> BOOLEAN]
    /\ UNCHANGED <<req, fnVars, pipeVars>>

SpecPost == InitPost /\ [][DoPost]_vars

\* C3 (as stated): whenever the request carries a signal field, that value is
\* used without calling classify; without it the signal is classify(m, s);
\* should_alert always runs and no channel is called unless it holds.
C3_Original ==
    pc = "done" =>
        /\ req.sig # "ABSENT" => (signal = req.sig /\ ~classified)
        /\ req.sig = "ABSENT" =>
               (classified /\ signal = determine_signal(req.momentum, req.sentiment))
        /\ checked
        /\ DOMAIN results # {} => should_alert(signal, req.momentum)

\* C3 (amended): a truthy explicit signal (not null, false, 0, 0.0, "", []
\* or {}) is used directly without calling classify; an absent or falsy
\* one is replaced by classify(m, s); should_alert always runs and no
\* channel is called unless it holds.
C3_ExplicitSignalBypass ==
    pc = "done" =>
        /\ req.sig \notin {"ABSENT", "NULL", "", "JSON_false", "JSON_0", "JSON_0.0", "JSON_[]", "JSON_{}"}
               => (signal = req.sig /\ ~classified)
        /\ req.sig \in {"ABSENT", "NULL", "", "JSON_false", "JSON_0", "JSON_0.0", "JSON_[]", "JSON_{}"} =>
               (classified /\ signal = determine_signal(req.momentum, req.sentiment))
        /\ checked
        /\ DOMAIN results # {} => should_alert(signal, req.momentum)
        /\ ~should_alert(signal, req.momentum) => resp = "below_threshold"
C3_Witness == pc = "done" /\ req.sig = "WATCH" /\ req.momentum = 85
              /\ ~classified /\ DOMAIN results = Channels

====
